---------------------------- MODULE Spec2Model ----------------------------
(***************************************************************************)
(* Data-preparation pipeline, ranked-list generator and remote filename    *)
(* allocator of the branded widget generators (branded_map.py, app.py,     *)
(* app2.py, branded_table_generator.py).                                   *)
(*                                                                         *)
(* Text is modelled as a sequence of one-character strings, so that        *)
(* trimming, case conversion, pattern matching, number parsing and number  *)
(* formatting are computed character by character as the code does.        *)
(***************************************************************************)
EXTENDS Integers, Sequences, FiniteSets, TLC

VARIABLES
    pc,                 \* position of the running operation: "input" or "done"
    identifier,         \* normalizer: one raw cell of the state column
    state_abbr,         \* normalizer: the cell after s_norm.map(STATE_LOOKUP)
    df,                 \* map pipeline: the caller's table (sequence of raw rows)
    show_state_labels,  \* map pipeline: the caller's label switch
    caller_top_n,       \* map pipeline: the caller's top_n argument
    map_out,            \* map pipeline: what generate_map_table_html_from_df built
    list_df,            \* list widget: the table handed to generate_html_from_df
    list_out,           \* list widget: the rows generate_html_from_df rendered
    app,                \* allocator: which application's allocator runs
    response,           \* allocator: the answer of the contents request
    alloc_out,          \* allocator: outcome of find_next_widget_filename
    metric_text,        \* coercion: one raw cell of the value column
    coerced,            \* coercion: the cell after pd.to_numeric
    row_kept,           \* coercion: whether the cell's row is still in the table
    sessions,           \* applications: session_state and last script run of every session
    remote              \* applications: the GitHub repository the sessions publish to

vars == <<pc, identifier, state_abbr, df, show_state_labels, caller_top_n, map_out,
          list_df, list_out, app, response, alloc_out,
          metric_text, coerced, row_kept, sessions, remote>>

(***************************************************************************)
(* Bounds of the model.                                                    *)
(***************************************************************************)
\* most letters of a known name or code whose case is flipped in an input
MaxFlips == 1
\* most blanks put before and after an identifier
MaxPad == 1
\* most rows of an uploaded table
MaxRows == 4
\* most entries of a remote directory listing
MaxListing == 4
\* most '%' and ',' characters put into one metric text
MaxMarks == 2
\* most requests of one script run that GitHub answers with an error status
MaxFaults == 1

(***************************************************************************)
(* Characters and Python's str methods on them.                            *)
(***************************************************************************)
Lowers == <<"a","b","c","d","e","f","g","h","i","j","k","l","m",
            "n","o","p","q","r","s","t","u","v","w","x","y","z">>

Uppers == <<"A","B","C","D","E","F","G","H","I","J","K","L","M",
            "N","O","P","Q","R","S","T","U","V","W","X","Y","Z">>

Digits == <<"0","1","2","3","4","5","6","7","8","9">>

Whitespace == {" ", "\t"}

IsLower(c) == \E i \in DOMAIN Lowers : Lowers[i] = c

IsUpper(c) == \E i \in DOMAIN Uppers : Uppers[i] = c

IsCased(c) == IsLower(c) \/ IsUpper(c)

IsDigit(c) == \E i \in DOMAIN Digits : Digits[i] = c

CharUpper(c) ==
    IF IsLower(c) THEN Uppers[CHOOSE i \in DOMAIN Lowers : Lowers[i] = c] ELSE c

CharLower(c) ==
    IF IsUpper(c) THEN Lowers[CHOOSE i \in DOMAIN Uppers : Uppers[i] = c] ELSE c

\* str.upper
StrUpper(s) == [i \in DOMAIN s |-> CharUpper(s[i])]

\* str.lower
StrLower(s) == [i \in DOMAIN s |-> CharLower(s[i])]

\* str.title: a cased character that follows a cased character is lower-cased,
\* any other cased character is upper-cased
StrTitle(s) ==
    [i \in DOMAIN s |->
        IF i > 1 /\ IsCased(s[i - 1]) THEN CharLower(s[i]) ELSE CharUpper(s[i])]

\* str.strip: leading and trailing whitespace removed
StrStrip(s) ==
    LET keep == {i \in DOMAIN s : s[i] \notin Whitespace}
    IN  IF keep = {} THEN <<>>
        ELSE LET lo == CHOOSE i \in keep : \A j \in keep : i <= j
                 hi == CHOOSE i \in keep : \A j \in keep : j <= i
             IN  SubSeq(s, lo, hi)

\* the value pandas puts where a lookup or a parse gives nothing
NaN == <<"NaN">>

(***************************************************************************)
(* State mapping.                                                          *)
(***************************************************************************)
STATE_ABBR ==
   <<
      [name |-> <<"A","l","a","b","a","m","a">>, code |-> <<"A","L">>],
      [name |-> <<"A","l","a","s","k","a">>, code |-> <<"A","K">>],
      [name |-> <<"A","r","i","z","o","n","a">>, code |-> <<"A","Z">>],
      [name |-> <<"A","r","k","a","n","s","a","s">>, code |-> <<"A","R">>],
      [name |-> <<"C","a","l","i","f","o","r","n","i","a">>, code |-> <<"C","A">>],
      [name |-> <<"C","o","l","o","r","a","d","o">>, code |-> <<"C","O">>],
      [name |-> <<"C","o","n","n","e","c","t","i","c","u","t">>, code |-> <<"C","T">>],
      [name |-> <<"D","e","l","a","w","a","r","e">>, code |-> <<"D","E">>],
      [name |-> <<"F","l","o","r","i","d","a">>, code |-> <<"F","L">>],
      [name |-> <<"G","e","o","r","g","i","a">>, code |-> <<"G","A">>],
      [name |-> <<"H","a","w","a","i","i">>, code |-> <<"H","I">>],
      [name |-> <<"I","d","a","h","o">>, code |-> <<"I","D">>],
      [name |-> <<"I","l","l","i","n","o","i","s">>, code |-> <<"I","L">>],
      [name |-> <<"I","n","d","i","a","n","a">>, code |-> <<"I","N">>],
      [name |-> <<"I","o","w","a">>, code |-> <<"I","A">>],
      [name |-> <<"K","a","n","s","a","s">>, code |-> <<"K","S">>],
      [name |-> <<"K","e","n","t","u","c","k","y">>, code |-> <<"K","Y">>],
      [name |-> <<"L","o","u","i","s","i","a","n","a">>, code |-> <<"L","A">>],
      [name |-> <<"M","a","i","n","e">>, code |-> <<"M","E">>],
      [name |-> <<"M","a","r","y","l","a","n","d">>, code |-> <<"M","D">>],
      [name |-> <<"M","a","s","s","a","c","h","u","s","e","t","t","s">>, code |-> <<"M","A">>],
      [name |-> <<"M","i","c","h","i","g","a","n">>, code |-> <<"M","I">>],
      [name |-> <<"M","i","n","n","e","s","o","t","a">>, code |-> <<"M","N">>],
      [name |-> <<"M","i","s","s","i","s","s","i","p","p","i">>, code |-> <<"M","S">>],
      [name |-> <<"M","i","s","s","o","u","r","i">>, code |-> <<"M","O">>],
      [name |-> <<"M","o","n","t","a","n","a">>, code |-> <<"M","T">>],
      [name |-> <<"N","e","b","r","a","s","k","a">>, code |-> <<"N","E">>],
      [name |-> <<"N","e","v","a","d","a">>, code |-> <<"N","V">>],
      [name |-> <<"N","e","w"," ","H","a","m","p","s","h","i","r","e">>, code |-> <<"N","H">>],
      [name |-> <<"N","e","w"," ","J","e","r","s","e","y">>, code |-> <<"N","J">>],
      [name |-> <<"N","e","w"," ","M","e","x","i","c","o">>, code |-> <<"N","M">>],
      [name |-> <<"N","e","w"," ","Y","o","r","k">>, code |-> <<"N","Y">>],
      [name |-> <<"N","o","r","t","h"," ","C","a","r","o","l","i","n","a">>, code |-> <<"N","C">>],
      [name |-> <<"N","o","r","t","h"," ","D","a","k","o","t","a">>, code |-> <<"N","D">>],
      [name |-> <<"O","h","i","o">>, code |-> <<"O","H">>],
      [name |-> <<"O","k","l","a","h","o","m","a">>, code |-> <<"O","K">>],
      [name |-> <<"O","r","e","g","o","n">>, code |-> <<"O","R">>],
      [name |-> <<"P","e","n","n","s","y","l","v","a","n","i","a">>, code |-> <<"P","A">>],
      [name |-> <<"R","h","o","d","e"," ","I","s","l","a","n","d">>, code |-> <<"R","I">>],
      [name |-> <<"S","o","u","t","h"," ","C","a","r","o","l","i","n","a">>, code |-> <<"S","C">>],
      [name |-> <<"S","o","u","t","h"," ","D","a","k","o","t","a">>, code |-> <<"S","D">>],
      [name |-> <<"T","e","n","n","e","s","s","e","e">>, code |-> <<"T","N">>],
      [name |-> <<"T","e","x","a","s">>, code |-> <<"T","X">>],
      [name |-> <<"U","t","a","h">>, code |-> <<"U","T">>],
      [name |-> <<"V","e","r","m","o","n","t">>, code |-> <<"V","T">>],
      [name |-> <<"V","i","r","g","i","n","i","a">>, code |-> <<"V","A">>],
      [name |-> <<"W","a","s","h","i","n","g","t","o","n">>, code |-> <<"W","A">>],
      [name |-> <<"W","e","s","t"," ","V","i","r","g","i","n","i","a">>, code |-> <<"W","V">>],
      [name |-> <<"W","i","s","c","o","n","s","i","n">>, code |-> <<"W","I">>],
      [name |-> <<"W","y","o","m","i","n","g">>, code |-> <<"W","Y">>]
   >>
\* the keys the construction loop assigns for one (name, code) pair
STATE_LOOKUP_KEYS(e) ==
    {e.name, StrTitle(e.name), StrUpper(e.name), StrLower(e.name),
     e.code, StrUpper(e.code), StrLower(e.code)}

\* dict built by the loop over STATE_ABBR.items(): a later pair overwrites a key
STATE_LOOKUP ==
    LET keys == UNION {STATE_LOOKUP_KEYS(STATE_ABBR[i]) : i \in DOMAIN STATE_ABBR}
        last(k) == CHOOSE i \in DOMAIN STATE_ABBR :
                      /\ k \in STATE_LOOKUP_KEYS(STATE_ABBR[i])
                      /\ \A j \in DOMAIN STATE_ABBR :
                            k \in STATE_LOOKUP_KEYS(STATE_ABBR[j]) => j <= i
    IN  [k \in keys |-> STATE_ABBR[last(k)].code]

\* MapLookup that hands a known key back as it is
MapLookup_KeepsKey(k) == IF k \in DOMAIN STATE_LOOKUP THEN k ELSE NaN

\* Series.map(STATE_LOOKUP): the value of the key, NaN for a key not in the dict
MapLookup(k) == IF k \in DOMAIN STATE_LOOKUP THEN STATE_LOOKUP[k] ELSE NaN

\* NormalizeState with the length test off by one: a 2-letter cell is title-cased
NormalizeState_TitleCodes(raw) ==
    LET s == StrStrip(raw)
        s_norm == IF Len(s) >= 2 THEN StrTitle(s) ELSE StrUpper(s)
    IN  MapLookup(s_norm)

\* one cell through lines 797-805: strip, classify by length, re-case, look up
NormalizeState(raw) ==
    LET s == StrStrip(raw)
        s_norm == IF Len(s) > 2 THEN StrTitle(s) ELSE StrUpper(s)
    IN  MapLookup(s_norm)

(***************************************************************************)
(* Metric coercion.  A number is kept exactly, as m * 10^(-e) with no      *)
(* trailing zero in the fraction, so that equal values are equal records.  *)
(***************************************************************************)
RECURSIVE Pow10(_)
Pow10(n) == IF n <= 0 THEN 1 ELSE 10 * Pow10(n - 1)

DigitVal(c) == (CHOOSE i \in DOMAIN Digits : Digits[i] = c) - 1

\* value of a digit string, most significant digit first; 0 for the empty one
RECURSIVE DigitsValue(_)
DigitsValue(ds) ==
    IF ds = <<>> THEN 0
    ELSE 10 * DigitsValue(SubSeq(ds, 1, Len(ds) - 1)) + DigitVal(ds[Len(ds)])

RECURSIVE Reduced(_, _)
Reduced(m, e) ==
    IF e > 0 /\ m % 10 = 0 THEN Reduced(m \div 10, e - 1) ELSE [ok |-> TRUE, m |-> m, e |-> e]

\* the float that stands for "not a number"
NaNValue == [ok |-> FALSE, m |-> 0, e |-> 0]

\* str.replace(c, "", regex=False)
StrRemove(s, c) == SelectSeq(s, LAMBDA x : x # c)

\* pd.to_numeric(errors="coerce") on one text: blanks around it are skipped, then
\* an optional sign, digits with at most one decimal point and at least one
\* digit; anything else is coerced to NaN
ToNumeric(text) ==
    LET t == StrStrip(text)
        signed == t # <<>> /\ t[1] \in {"-", "+"}
        body == IF signed THEN Tail(t) ELSE t
        dots == {i \in DOMAIN body : body[i] = "."}
        wellFormed == /\ Cardinality(dots) <= 1
                      /\ \A i \in DOMAIN body \ dots : IsDigit(body[i])
                      /\ \E i \in DOMAIN body : IsDigit(body[i])
    IN  IF ~wellFormed THEN NaNValue
        ELSE LET dot == IF dots = {} THEN Len(body) + 1 ELSE CHOOSE i \in dots : TRUE
                 whole == SubSeq(body, 1, dot - 1)
                 frac == SubSeq(body, dot + 1, Len(body))
                 mag == DigitsValue(whole \o frac)
             IN  Reduced(IF signed /\ t[1] = "-" THEN 0 - mag ELSE mag, Len(frac))

\* CoerceMetric that removes '%' only
CoerceMetric_PercentOnly(text) == ToNumeric(StrRemove(text, "%"))

\* lines 807-813 on one cell: '%' and ',' removed, then parsed
CoerceMetric(text) == ToNumeric(StrRemove(StrRemove(text, "%"), ","))

Max2(a, b) == IF a >= b THEN a ELSE b

\* the integer x * 10^E of a number with at most E fraction digits
Scaled(x, E) == x.m * Pow10(E - x.e)

\* float comparison a < b
NumLT(a, b) == LET E == Max2(a.e, b.e) IN Scaled(a, E) < Scaled(b, E)

NumLE(a, b) == ~NumLT(b, a)

(***************************************************************************)
(* generate_map_table_html_from_df: the data preparation.                  *)
(***************************************************************************)
\* str(n) of a non-negative integer
RECURSIVE IntToStr(_)
IntToStr(n) ==
    IF n < 10 THEN <<Digits[n + 1]>>
    ELSE IntToStr(n \div 10) \o <<Digits[(n % 10) + 1]>>

\* the caller's frame after a call made without line 796: the assignment of
\* line 797 writes the stripped state text into it
CallerFrameAfter_NoCopy(table) ==
    [i \in DOMAIN table |-> [table[i] EXCEPT !.state = StrStrip(@)]]

\* line 796, df = df.copy(): every assignment and filter of the body works on
\* the copy, so the frame the caller passed in is the frame it has afterwards
CallerFrameAfter(table) == table

\* lines 796-813: the working copy with the state text stripped, the state_abbr
\* column added and the value column coerced; the row label (index) is kept
CleanRows(table) ==
    [i \in DOMAIN table |->
        [index |-> i,
         state |-> StrStrip(table[i].state),
         state_abbr |-> NormalizeState(table[i].state),
         value |-> CoerceMetric(table[i].value)]]

\* DropInvalid that also keeps only the first row of every state code
DropInvalid_FirstPerCode(rows) ==
    LET resolved == SelectSeq(rows, LAMBDA r : r.state_abbr # NaN)
        valid == SelectSeq(resolved, LAMBDA r : r.value.ok)
        firsts == {i \in DOMAIN valid :
                      \A j \in 1..(i - 1) : valid[j].state_abbr # valid[i].state_abbr}
    IN  SelectSeq(valid, LAMBDA r : \E i \in firsts : valid[i] = r)

\* lines 815-816: rows without a state code are dropped, then rows without a value
DropInvalid(rows) ==
    LET resolved == SelectSeq(rows, LAMBDA r : r.state_abbr # NaN)
    IN  SelectSeq(resolved, LAMBDA r : r.value.ok)

\* a sequence of numbers in descending order
RECURSIVE SortedDesc(_)
SortedDesc(vals) ==
    IF vals = <<>> THEN <<>>
    ELSE LET rest == SortedDesc(Tail(vals))
             v == Head(vals)
             before == {p \in DOMAIN rest : NumLE(v, rest[p])}
             k == Cardinality(before)
         IN  SubSeq(rest, 1, k) \o <<v>> \o SubSeq(rest, k + 1, Len(rest))

\* RankMin with method="dense": one more than the number of distinct greater values
RankMin_Dense(vals, v) ==
    1 + Cardinality({vals[j] : j \in {i \in DOMAIN vals : NumLT(v, vals[i])}})

\* line 821: Series.rank(ascending=False, method="min"): the first position of
\* the value's group of equals in the descending order
RankMin(vals, v) ==
    LET sorted == SortedDesc(vals)
    IN  CHOOSE p \in DOMAIN sorted :
            /\ sorted[p] = v
            /\ \A q \in 1..(p - 1) : sorted[q] # v

\* Series.min and Series.max of a non-empty column
RECURSIVE SeriesMin(_)
SeriesMin(vals) ==
    IF Len(vals) = 1 THEN vals[1]
    ELSE LET m == SeriesMin(Tail(vals))
         IN  IF NumLT(vals[1], m) THEN vals[1] ELSE m

RECURSIVE SeriesMax(_)
SeriesMax(vals) ==
    IF Len(vals) = 1 THEN vals[1]
    ELSE LET m == SeriesMax(Tail(vals))
         IN  IF NumLT(m, vals[1]) THEN vals[1] ELSE m

\* the float 0.5, as a fraction
Half == [n |-> 1, d |-> 2]

\* FillNorm that measures the distance from v_max instead of from v_min
FillNorm_FromMax(vals, v) ==
    LET v_min == SeriesMin(vals)
        v_max == SeriesMax(vals)
        E == Max2(v.e, Max2(v_min.e, v_max.e))
    IN  IF v_min = v_max THEN Half
        ELSE [n |-> Scaled(v_max, E) - Scaled(v, E),
              d |-> Scaled(v_max, E) - Scaled(v_min, E)]

\* FillNorm that divides by v_max instead of the range v_max - v_min
FillNorm_DivByMax(vals, v) ==
    LET v_min == SeriesMin(vals)
        v_max == SeriesMax(vals)
        E == Max2(v.e, Max2(v_min.e, v_max.e))
    IN  IF v_min = v_max THEN Half
        ELSE [n |-> Scaled(v, E) - Scaled(v_min, E), d |-> Scaled(v_max, E)]

\* lines 840-845: 0.5 for every row when v_min == v_max, else
\* (value - v_min) / (v_max - v_min), kept as the fraction n / d
FillNorm(vals, v) ==
    LET v_min == SeriesMin(vals)
        v_max == SeriesMax(vals)
        E == Max2(v.e, Max2(v_min.e, v_max.e))
    IN  IF v_min = v_max THEN Half
        ELSE [n |-> Scaled(v, E) - Scaled(v_min, E),
              d |-> Scaled(v_max, E) - Scaled(v_min, E)]

\* lines 821-845: the rank and fill_norm columns
WithRankAndFill(rows) ==
    LET vals == [i \in DOMAIN rows |-> rows[i].value]
    IN  [i \in DOMAIN rows |->
            [index |-> rows[i].index,
             state |-> rows[i].state,
             state_abbr |-> rows[i].state_abbr,
             value |-> rows[i].value,
             rank |-> RankMin(vals, rows[i].value),
             fill_norm |-> FillNorm(vals, rows[i].value)]]

\* line 895: label_text = state_abbr + " (" + rank + ")"
LabelText(r) == r.state_abbr \o <<" ", "(">> \o IntToStr(r.rank) \o <<")">>

\* lines 1051-1052: DataFrame.sort_values(by=value_col); rows of equal value keep
\* their order, in the ascending and in the descending direction
RECURSIVE SortValues(_, _)
SortValues(rows, ascending) ==
    IF rows = <<>> THEN <<>>
    ELSE LET rest == SortValues(Tail(rows), ascending)
             r == Head(rows)
             first(x) == IF ascending THEN NumLT(x.value, r.value)
                                      ELSE NumLT(r.value, x.value)
             k == Cardinality({p \in DOMAIN rest : first(rest[p])})
         IN  SubSeq(rest, 1, k) \o <<r>> \o SubSeq(rest, k + 1, Len(rest))

Min2(a, b) == IF a <= b THEN a ELSE b

\* lines 755-763: one table row per row of df.head(top_n); the rank pill shows
\* the enumeration counter idx, which starts at 1
build_ranked_table_html(rows, top_n) ==
    [idx \in 1..Min2(top_n, Len(rows)) |->
        [pill |-> IntToStr(idx),
         state |-> rows[idx].state,
         value |-> rows[idx].value]]

\* lines 1054-1055: both tables are built with top_n=10
TABLE_TOP_N == 10

\* generate_map_table_html_from_df without the df.empty test of lines 818-819
generate_map_table_html_from_df_NoEmptyTest(table, labels, top_n) ==
    LET ranked == WithRankAndFill(DropInvalid(CleanRows(table)))
    IN  [valid |-> TRUE,
         records |-> ranked,
         label_text |-> IF labels
                        THEN [i \in DOMAIN ranked |-> LabelText(ranked[i])]
                        ELSE <<>>,
         high |-> build_ranked_table_html(SortValues(ranked, FALSE), TABLE_TOP_N),
         low |-> build_ranked_table_html(SortValues(ranked, TRUE), TABLE_TOP_N)]

\* lines 796-1086: what the returned document shows; valid = FALSE is the
\* "No valid state/metric data to display." paragraph.  The top_n parameter
\* (line 791) is not read anywhere in the body.
generate_map_table_html_from_df(table, labels, top_n) ==
    LET kept == DropInvalid(CleanRows(table))
    IN  IF kept = <<>>
        THEN [valid |-> FALSE, records |-> <<>>, label_text |-> <<>>,
              high |-> <<>>, low |-> <<>>]
        ELSE LET ranked == WithRankAndFill(kept)
             IN  [valid |-> TRUE,
                  records |-> ranked,
                  label_text |-> IF labels
                                 THEN [i \in DOMAIN ranked |-> LabelText(ranked[i])]
                                 ELSE <<>>,
                  high |-> build_ranked_table_html(SortValues(ranked, FALSE), TABLE_TOP_N),
                  low |-> build_ranked_table_html(SortValues(ranked, TRUE), TABLE_TOP_N)]

(***************************************************************************)
(* Raw cells of the state column that the normalizer is run on: every      *)
(* known name and code in its usual spellings with up to MaxFlips letters  *)
(* of the other case, some texts that are no state, each with up to MaxPad *)
(* blanks on either side.                                                  *)
(***************************************************************************)
RECURSIVE FlipSets(_, _)
FlipSets(D, k) ==
    IF k = 0 THEN {{}}
    ELSE LET prev == FlipSets(D, k - 1)
         IN  prev \cup {F \cup {p} : F \in prev, p \in D}

FlipCase(s, F) ==
    [i \in DOMAIN s |->
        IF i \in F
        THEN IF IsUpper(s[i]) THEN CharLower(s[i]) ELSE CharUpper(s[i])
        ELSE s[i]]

CaseVariants(s) ==
    {FlipCase(b, F) : b \in {s, StrLower(s), StrUpper(s)},
                      F \in FlipSets(DOMAIN s, MaxFlips)}

Blanks(n) == [i \in 1..n |-> " "]

Padded(T) == {Blanks(l) \o s \o Blanks(r) : s \in T, l \in 0..MaxPad, r \in 0..MaxPad}

KnownTexts ==
    UNION {CaseVariants(STATE_ABBR[i].name) \cup CaseVariants(STATE_ABBR[i].code) :
              i \in DOMAIN STATE_ABBR}

UnknownTexts ==
    { <<"N","o","w","h","e","r","e">>,
      <<"A","t","l","a","n","t","i","s">>,
      <<"P","u","e","r","t","o"," ","R","i","c","o">>,
      <<"N","e","w"," "," ","Y","o","r","k">>,
      <<"N","e","w","y","o","r","k">>,
      <<"C","a","l">>,
      <<"X","X">>,
      <<"C">>,
      <<"n","a","n">>,
      <<>> }

Identifiers == Padded(KnownTexts \cup UnknownTexts) \cup {<<"\t","c","a","\t">>}

(***************************************************************************)
(* generate_html_from_df of the ranked-list widget (app.py).               *)
(***************************************************************************)
\* lines 1058-1060: sort_values("probability", ascending=False),
\* reset_index(drop=True), rank = index + 1
RankedList(table) ==
    LET sorted == SortValues([i \in DOMAIN table |->
                                 [state |-> table[i].state,
                                  value |-> table[i].probability]], FALSE)
    IN  [i \in DOMAIN sorted |->
            [state |-> sorted[i].state,
             probability |-> sorted[i].value,
             rank |-> i]]

\* lines 1079-1111: one row snippet per row, showing the state, the rank and the
\* probability
generate_html_from_df(table) ==
    LET ranked == RankedList(table)
    IN  [i \in DOMAIN ranked |->
            [state |-> ranked[i].state,
             rank |-> IntToStr(ranked[i].rank),
             probability |-> ranked[i].probability]]

(***************************************************************************)
(* find_next_widget_filename.  The four applications carry the same        *)
(* function; only the letter before the number differs.                    *)
(***************************************************************************)
Apps == {"app", "app2", "branded_map", "branded_table_generator"}

\* the letter of the pattern and of the returned name: w in app.py and app2.py,
\* t in branded_map.py and branded_table_generator.py
WidgetPrefix(a) == IF a \in {"app", "app2"} THEN "w" ELSE "t"

DotHtml == <<".", "h", "t", "m", "l">>

\* MatchWidgetName with re.IGNORECASE: the letter and the extension match in
\* either case
MatchWidgetName_IgnoreCase(p, name) ==
    /\ Len(name) >= 1 + 1 + Len(DotHtml)
    /\ CharLower(name[1]) = p
    /\ StrLower(SubSeq(name, Len(name) - Len(DotHtml) + 1, Len(name))) = DotHtml
    /\ \A i \in 2..(Len(name) - Len(DotHtml)) : IsDigit(name[i])

\* re.fullmatch(r"w(\d+)\.html", name): the whole name is the letter, one or more
\* digits, and ".html"
MatchWidgetName(p, name) ==
    /\ Len(name) >= 1 + 1 + Len(DotHtml)
    /\ name[1] = p
    /\ SubSeq(name, Len(name) - Len(DotHtml) + 1, Len(name)) = DotHtml
    /\ \A i \in 2..(Len(name) - Len(DotHtml)) : IsDigit(name[i])

\* int(m.group(1))
MatchedNumber(name) == DigitsValue(SubSeq(name, 2, Len(name) - Len(DotHtml)))

\* ScanItems that passes over an entry it cannot read instead of giving up
RECURSIVE ScanItems_SkipUnreadable(_, _, _)
ScanItems_SkipUnreadable(p, items, max_n) ==
    IF items = <<>> THEN [raised |-> FALSE, max_n |-> max_n]
    ELSE LET item == Head(items)
         IN  IF ~item.object
             THEN ScanItems_SkipUnreadable(p, Tail(items), max_n)
             ELSE IF item.type = "file" /\ MatchWidgetName(p, item.name)
                  THEN ScanItems_SkipUnreadable(p, Tail(items),
                                                Max2(max_n, MatchedNumber(item.name)))
                  ELSE ScanItems_SkipUnreadable(p, Tail(items), max_n)

\* ScanItems that keeps the number of the last match instead of the largest
RECURSIVE ScanItems_LastMatch(_, _, _)
ScanItems_LastMatch(p, items, max_n) ==
    IF items = <<>> THEN [raised |-> FALSE, max_n |-> max_n]
    ELSE LET item == Head(items)
         IN  IF ~item.object
             THEN [raised |-> TRUE, max_n |-> max_n]
             ELSE IF item.type = "file" /\ MatchWidgetName(p, item.name)
                  THEN ScanItems_LastMatch(p, Tail(items), MatchedNumber(item.name))
                  ELSE ScanItems_LastMatch(p, Tail(items), max_n)

\* the loop over the entries: an entry that is no JSON object makes item.get
\* raise; a file whose name matches raises max_n to its number
RECURSIVE ScanItems(_, _, _)
ScanItems(p, items, max_n) ==
    IF items = <<>> THEN [raised |-> FALSE, max_n |-> max_n]
    ELSE LET item == Head(items)
         IN  IF ~item.object
             THEN [raised |-> TRUE, max_n |-> max_n]
             ELSE IF item.type = "file" /\ MatchWidgetName(p, item.name)
                  THEN ScanItems(p, Tail(items), Max2(max_n, MatchedNumber(item.name)))
                  ELSE ScanItems(p, Tail(items), max_n)

\* NextName without the increment
NextName_NoIncrement(p, max_n) == <<p>> \o IntToStr(max_n) \o DotHtml

\* f"w{max_n + 1}.html" if max_n >= 0 else "w1.html"
NextName(p, max_n) ==
    IF max_n >= 0 THEN <<p>> \o IntToStr(max_n + 1) \o DotHtml
    ELSE <<p, "1">> \o DotHtml

\* the whole function on the answer of the contents request.  No answer at all
\* (requests.get raises) leaves the function by that exception; any status but 200
\* returns the default; a body that is no JSON (r.json() raises), a JSON object
\* (its keys are strings, item.get raises) or a list with an unreadable entry
\* returns the default from the except branch
find_next_widget_filename(a, resp) ==
    LET p == WidgetPrefix(a)
        default == [raised |-> FALSE, name |-> <<p, "1">> \o DotHtml]
    IN  IF ~resp.arrived THEN [raised |-> TRUE, name |-> <<>>]
        ELSE IF resp.status # 200 THEN default
        ELSE IF resp.body.kind = "invalid" THEN default
        ELSE IF resp.body.kind = "object" THEN default
        ELSE LET scan == ScanItems(p, resp.body.items, 0)
             IN  IF scan.raised THEN default
                 ELSE [raised |-> FALSE, name |-> NextName(p, scan.max_n)]

(***************************************************************************)
(* Answers of the contents request.                                        *)
(***************************************************************************)
File(name) == [object |-> TRUE, type |-> "file", name |-> name]

Dir(name) == [object |-> TRUE, type |-> "dir", name |-> name]

\* an element of the list that is no JSON object
Unreadable == [object |-> FALSE, type |-> "", name |-> <<>>]

\* entries a repository root may hold, for the letter p, in the order of their
\* names, in which the contents request lists them
ItemUniverse(p) ==
    LET P == CharUpper(p)
    IN  << File(<<P, "3", "0", ".", "h","t","m","l">>),
           File(<<"n","o","t","e","s",".","t","x","t">>),
           File(<<p, ".", "h","t","m","l">>),
           File(<<p, "0", "1", ".", "h","t","m","l">>),
           File(<<p, "1", ".", "h","t","m","l">>),
           File(<<p, "1", "0", ".", "h","t","m","l">>),
           Dir(<<p, "1", "2", ".", "h","t","m","l">>),
           File(<<p, "2", ".", "h","t","m","l">>),
           File(<<p, "2", "0", ".", "h","t","m">>),
           File(<<p, "9", ".", "h","t","m","l">>),
           File(<<"x", p, "4", "0", ".", "h","t","m","l">>),
           Unreadable >>

\* the index sets of at most n entries, each as its increasing sequence
RECURSIVE PickUpTo(_, _)
PickUpTo(m, n) ==
    IF m = 0 \/ n = 0 THEN {<<>>}
    ELSE PickUpTo(m - 1, n) \cup {Append(q, m) : q \in PickUpTo(m - 1, n - 1)}

UniverseSize == Len(ItemUniverse("w"))

Listings(p) ==
    {[k \in DOMAIN q |-> ItemUniverse(p)[q[k]]] : q \in PickUpTo(UniverseSize, MaxListing)}

Responses(p) ==
    {[arrived |-> TRUE, status |-> 200, body |-> [kind |-> "list", items |-> L]] :
        L \in Listings(p)}
    \cup {[arrived |-> TRUE, status |-> st, body |-> [kind |-> k, items |-> <<>>]] :
             st \in {200, 401, 403, 404, 500}, k \in {"object", "invalid"}}
    \cup {[arrived |-> FALSE, status |-> 0, body |-> [kind |-> "invalid", items |-> <<>>]]}

(***************************************************************************)
(* The GitHub repository the applications publish to, and the helper       *)
(* functions that call its API.  A remote state is                         *)
(* [repo, pages, files]: whether the repository exists, whether Pages is    *)
(* enabled, and for every file of the root its content.  The four          *)
(* applications carry the same helpers.                                    *)
(***************************************************************************)
\* status codes a request is answered with when GitHub does not serve it: 500,
\* and 403 for the request the code tells from the other errors
ErrorStatuses(call) == IF call = "pages_get" THEN {403, 500} ELSE {500}

\* the requests of one script run
CallPoints ==
    {"check_repo", "check_file", "list_contents", "ensure_repo_get", "ensure_repo_post",
     "pages_get", "pages_post", "upload_get", "upload_put", "build_post"}

\* how GitHub answers the requests of one script run: 0 for the answer that fits
\* the repository, or an error status
NoFaults == [c \in CallPoints |-> 0]

\* the plans with an error status for at most k requests, all of them in C
RECURSIVE FaultPlans(_, _)
FaultPlans(C, k) ==
    IF k = 0 THEN {NoFaults}
    ELSE LET prev == FaultPlans(C, k - 1)
         IN  prev \cup UNION {{[p EXCEPT ![c] = st] : st \in ErrorStatuses(c)} :
                                  p \in prev, c \in C}

\* at most MaxFaults requests of a script run get an error
PlansOn(C) == FaultPlans(C, MaxFaults)

\* the requests the availability check can make, those "Update widget" can make
\* and those the map application's publish button can make
CheckCalls == {"check_repo", "check_file", "list_contents"}

UpdateCalls ==
    {"ensure_repo_get", "ensure_repo_post", "pages_get", "pages_post",
     "upload_get", "upload_put", "build_post"}

PublishCalls == {"check_repo", "check_file"} \cup UpdateCalls

CheckPlans == PlansOn(CheckCalls)

UpdatePlans == PlansOn(UpdateCalls)

PublishPlans == PlansOn(PublishCalls)

Answer(plan, call, fitting) == IF plan[call] = 0 THEN fitting ELSE plan[call]

\* one request recorded in the run's list of requests
Logged(c, call, status) == Append(c.log, [call |-> call, status |-> status])

\* order of the characters of file names, as in ASCII
AsciiOrder == <<".">> \o Digits \o <<"_">> \o Lowers

CharRank(ch) == CHOOSE i \in DOMAIN AsciiOrder : AsciiOrder[i] = ch

RECURSIVE NameLE(_, _)
NameLE(a, b) ==
    IF a = <<>> THEN TRUE
    ELSE IF b = <<>> THEN FALSE
    ELSE IF Head(a) = Head(b) THEN NameLE(Tail(a), Tail(b))
    ELSE CharRank(Head(a)) < CharRank(Head(b))

RECURSIVE SortNames(_)
SortNames(S) ==
    IF S = {} THEN <<>>
    ELSE LET first == CHOOSE x \in S : \A y \in S : NameLE(x, y)
         IN  <<first>> \o SortNames(S \ {first})

\* the contents request on the root of an existing repository: its files in the
\* order of their names
ContentsResponse(plan, rem) ==
    LET names == SortNames(DOMAIN rem.files)
    IN  [arrived |-> TRUE,
         status |-> Answer(plan, "list_contents", 200),
         body |-> [kind |-> "list", items |-> [i \in DOMAIN names |-> File(names[i])]]]

\* check_repo_exists that takes every status but 200 for "no such repository"
check_repo_exists_ErrorMeansAbsent(plan, c) ==
    LET s == Answer(plan, "check_repo", IF c.remote.repo THEN 200 ELSE 404)
    IN  [raised |-> FALSE, status |-> s, value |-> s = 200,
         remote |-> c.remote, log |-> Logged(c, "check_repo", s)]

\* check_repo_exists: 200 is True, 404 is False, any other status raises
check_repo_exists(plan, c) ==
    LET s == Answer(plan, "check_repo", IF c.remote.repo THEN 200 ELSE 404)
    IN  [raised |-> s \notin {200, 404}, status |-> s, value |-> s = 200,
         remote |-> c.remote, log |-> Logged(c, "check_repo", s)]

\* check_file_exists: 200 is True, 404 is False, any other status raises
check_file_exists(plan, c, path) ==
    LET s == Answer(plan, "check_file",
                    IF c.remote.repo /\ path \in DOMAIN c.remote.files THEN 200 ELSE 404)
    IN  [raised |-> s \notin {200, 404}, status |-> s, value |-> s = 200,
         remote |-> c.remote, log |-> Logged(c, "check_file", s)]

\* ensure_repo_exists: 200 on the GET returns, any status but 404 raises; then
\* the repository is created and any status but 200 or 201 raises
ensure_repo_exists(plan, c) ==
    LET g == Answer(plan, "ensure_repo_get", IF c.remote.repo THEN 200 ELSE 404)
        afterGet == [c EXCEPT !.log = Logged(c, "ensure_repo_get", g)]
        p == Answer(plan, "ensure_repo_post", 201)
        afterPost == [afterGet EXCEPT !.log = Logged(afterGet, "ensure_repo_post", p)]
    IN  IF g = 200 THEN [raised |-> FALSE, status |-> g, remote |-> c.remote, log |-> afterGet.log]
        ELSE IF g # 404 THEN [raised |-> TRUE, status |-> g, remote |-> c.remote, log |-> afterGet.log]
        ELSE IF p \notin {200, 201}
             THEN [raised |-> TRUE, status |-> p, remote |-> c.remote, log |-> afterPost.log]
             ELSE [raised |-> FALSE, status |-> p,
                   remote |-> [c.remote EXCEPT !.repo = TRUE], log |-> afterPost.log]

\* ensure_pages_enabled: 200 on the GET returns, 403 returns without a word, any
\* status but 404 raises; then Pages is enabled and any status but 201 or 202
\* raises
ensure_pages_enabled(plan, c) ==
    LET g == Answer(plan, "pages_get", IF c.remote.pages THEN 200 ELSE 404)
        afterGet == [c EXCEPT !.log = Logged(c, "pages_get", g)]
        p == Answer(plan, "pages_post", 201)
        afterPost == [afterGet EXCEPT !.log = Logged(afterGet, "pages_post", p)]
    IN  IF g \in {200, 403}
        THEN [raised |-> FALSE, status |-> g, remote |-> c.remote, log |-> afterGet.log]
        ELSE IF g # 404
        THEN [raised |-> TRUE, status |-> g, remote |-> c.remote, log |-> afterGet.log]
        ELSE IF p \notin {201, 202}
             THEN [raised |-> TRUE, status |-> p, remote |-> c.remote, log |-> afterPost.log]
             ELSE [raised |-> FALSE, status |-> p,
                   remote |-> [c.remote EXCEPT !.pages = TRUE], log |-> afterPost.log]

\* the files of a repository after content is written to path
Written(files, path, content) ==
    [n \in DOMAIN files \cup {path} |-> IF n = path THEN content ELSE files[n]]

\* upload_file_to_github that refuses to write to a path that holds a file
upload_file_to_github_NoOverwrite(plan, c, path, content) ==
    LET g == Answer(plan, "upload_get", IF path \in DOMAIN c.remote.files THEN 200 ELSE 404)
        afterGet == [c EXCEPT !.log = Logged(c, "upload_get", g)]
        p == Answer(plan, "upload_put", 201)
        afterPut == [afterGet EXCEPT !.log = Logged(afterGet, "upload_put", p)]
    IN  IF g # 404
        THEN [raised |-> TRUE, status |-> g, remote |-> c.remote, log |-> afterGet.log]
        ELSE IF p \notin {200, 201}
             THEN [raised |-> TRUE, status |-> p, remote |-> c.remote, log |-> afterPut.log]
             ELSE [raised |-> FALSE, status |-> p,
                   remote |-> [c.remote EXCEPT !.files = Written(@, path, content)],
                   log |-> afterPut.log]

\* upload_file_to_github that sends the PUT a second time when the first is refused
upload_file_to_github_Retries(plan, c, path, content) ==
    LET g == Answer(plan, "upload_get", IF path \in DOMAIN c.remote.files THEN 200 ELSE 404)
        afterGet == [c EXCEPT !.log = Logged(c, "upload_get", g)]
        p == Answer(plan, "upload_put", IF g = 200 THEN 200 ELSE 201)
        afterPut == [afterGet EXCEPT !.log = Logged(afterGet, "upload_put", p)]
        afterRetry == [afterPut EXCEPT !.log = Logged(afterPut, "upload_put", p)]
    IN  IF g \notin {200, 404}
        THEN [raised |-> TRUE, status |-> g, remote |-> c.remote, log |-> afterGet.log]
        ELSE IF p \notin {200, 201}
             THEN [raised |-> TRUE, status |-> p, remote |-> c.remote, log |-> afterRetry.log]
             ELSE [raised |-> FALSE, status |-> p,
                   remote |-> [c.remote EXCEPT !.files = Written(@, path, content)],
                   log |-> afterPut.log]

\* upload_file_to_github: the GET finds the sha of an existing file (200) or none
\* (404), any other status raises; the PUT creates the file or replaces it, and
\* any status but 200 or 201 raises
upload_file_to_github(plan, c, path, content) ==
    LET g == Answer(plan, "upload_get", IF path \in DOMAIN c.remote.files THEN 200 ELSE 404)
        afterGet == [c EXCEPT !.log = Logged(c, "upload_get", g)]
        p == Answer(plan, "upload_put", IF g = 200 THEN 200 ELSE 201)
        afterPut == [afterGet EXCEPT !.log = Logged(afterGet, "upload_put", p)]
    IN  IF g \notin {200, 404}
        THEN [raised |-> TRUE, status |-> g, remote |-> c.remote, log |-> afterGet.log]
        ELSE IF p \notin {200, 201}
             THEN [raised |-> TRUE, status |-> p, remote |-> c.remote, log |-> afterPut.log]
             ELSE [raised |-> FALSE, status |-> p,
                   remote |-> [c.remote EXCEPT !.files = Written(@, path, content)],
                   log |-> afterPut.log]

\* trigger_pages_build: returns whether the status is 201 or 202; never raises
trigger_pages_build(plan, c) ==
    LET s == Answer(plan, "build_post", 201)
    IN  [raised |-> FALSE, status |-> s, value |-> s \in {201, 202},
         remote |-> c.remote, log |-> Logged(c, "build_post", s)]

\* base_filename, BASE_WIDGET_FILENAME: the file an application publishes to
\* unless told otherwise
base_filename(a) ==
    CASE a = "app" -> <<"s","u","p","e","r","m","o","o","n","_","t","a","b","l","e",".","h","t","m","l">>
      [] a = "app2" -> <<"s","t","a","d","i","u","m","_","f","a","n","_","e","x","p","e","r","i","e","n","c","e",".","h","t","m","l">>
      [] a = "branded_table_generator" -> <<"b","r","a","n","d","e","d","_","t","a","b","l","e",".","h","t","m","l">>
      [] OTHER -> <<"b","r","a","n","d","e","d","_","m","a","p",".","h","t","m","l">>

(***************************************************************************)
(* One browser session of an application.  Streamlit runs the whole script *)
(* again on every interaction; a script run is modelled as one step.  The  *)
(* GitHub token, user and repository name are set.                         *)
(***************************************************************************)
\* the list and table applications; branded_map is the map application
ListApps == {"app", "app2", "branded_table_generator"}

\* app.py and app2.py name the columns an upload must have
HasRequiredCols(a) == a \in {"app", "app2"}

\* the file uploader: empty, or a CSV file.  shape is what pd.read_csv makes of
\* it: "ok" a table with rows and every column, "unreadable" read_csv raises,
\* "no_rows" the header line only, "missing_column" rows of a single column
NoFile == [name |-> "", shape |-> "none"]

CsvFiles ==
    { [name |-> "A", shape |-> "ok"],
      [name |-> "B", shape |-> "ok"],
      [name |-> "E", shape |-> "no_rows"],
      [name |-> "M", shape |-> "missing_column"],
      [name |-> "U", shape |-> "unreadable"] }

\* st.session_state["availability"] before the first check
NoAvailability ==
    [checked |-> FALSE, repo_exists |-> FALSE, file_exists |-> FALSE,
     checked_filename |-> <<>>, suggested_new_filename |-> <<>>]

\* what a script run showed and did: the interaction that started it, whether
\* an error box was shown, whether st.stop() ended it, whether the buttons of
\* the availability check and of the publish step were drawn, whether a widget
\* document was generated, how its remote step ended, the status the failure
\* carried and the requests it made
NoOutcome ==
    [event |-> "none", error |-> FALSE, stopped |-> FALSE, controls |-> FALSE,
     generated |-> FALSE, result |-> "none", status |-> 0, log |-> <<>>]

\* the settings of the map application's edit panel that the model tells apart:
\* the brand of the selectbox above the uploader and the page title of the edit
\* tab; DefaultEdits is what a session starts with
Edits ==
    [brand : {"VegasInsider", "Action Network"},
     page_title : {"State Metric Map", "My title"}]

DefaultEdits == [brand |-> "VegasInsider", page_title |-> "State Metric Map"]

\* session_state of a new session; an absent key reads as its .get default
\* ("" and <<>> for texts, FALSE for flags); an HTML document is named by what
\* it was built from, <<>> being the empty one; github_token is whether the
\* secrets of the deployment hold a GITHUB_TOKEN; widget_title reads as
\* default_title until the text input of the tabs has set it
NewSession(a) ==
    [app |-> a,
     github_token |-> TRUE,
     uploaded_file |-> NoFile,
     csv_fingerprint |-> "",
     edit |-> DefaultEdits,
     applied |-> DefaultEdits,
     draft_html |-> <<>>,
     draft_ready |-> FALSE,
     generated_html |-> <<>>,
     html_generated |-> FALSE,
     iframe_published |-> FALSE,
     published_url |-> <<>>,
     iframe_snippet |-> <<>>,
     publish_status |-> "",
     has_generated |-> FALSE,
     widget_title |-> "default_title",
     availability |-> NoAvailability,
     widget_file_name |-> <<>>,
     file_conflict_choice |-> "Replace",
     outcome |-> NoOutcome]

\* the document a session publishes: who wrote it, and the upload and the
\* settings it was built from
Content(id, data) == [by |-> id, data |-> data]

\* app.py 1171-1191, app2.py 929-948, branded_table_generator.py 1023-1032:
\* the upload step; "stop" is st.error followed by st.stop()
ListLoad(sess) ==
    LET f == sess.uploaded_file
    IN  IF f.shape = "none" THEN "no_file"
        ELSE IF f.shape = "unreadable" THEN "stop"
        ELSE IF HasRequiredCols(sess.app) /\ f.shape = "missing_column" THEN "stop"
        ELSE IF ~HasRequiredCols(sess.app) /\ f.shape = "no_rows" THEN "stop"
        ELSE "loaded"

\* app.py 1291-1324: the "Page availability check" button
PageAvailabilityCheck(plan, sess, rem) ==
    LET a == sess.app
        start == [remote |-> rem, log |-> <<>>]
        r == check_repo_exists(plan, start)
        f == check_file_exists(plan, r, base_filename(a))
        listed == find_next_widget_filename(a, ContentsResponse(plan, rem))
        failed(x) == [session |-> [sess EXCEPT !.outcome.result = "failed",
                                               !.outcome.error = TRUE,
                                               !.outcome.status = x.status,
                                               !.outcome.log = x.log],
                      remote |-> rem]
        stored(repo_exists, file_exists, next_fname, log) ==
            [session |-> [sess EXCEPT
                 !.availability = [checked |-> TRUE,
                                   repo_exists |-> repo_exists,
                                   file_exists |-> file_exists,
                                   checked_filename |-> base_filename(a),
                                   suggested_new_filename |-> next_fname],
                 !.widget_file_name = IF @ = <<>> THEN base_filename(a) ELSE @,
                 !.outcome.result = "success",
                 !.outcome.log = log],
             remote |-> rem]
    IN  IF r.raised THEN failed(r)
        ELSE IF ~r.value THEN stored(FALSE, FALSE, <<>>, r.log)
        ELSE IF f.raised THEN failed(f)
        ELSE IF ~f.value THEN stored(TRUE, FALSE, <<>>, f.log)
        ELSE stored(TRUE, TRUE, listed.name,
                    Logged(f, "list_contents", Answer(plan, "list_contents", 200)))

\* "Update widget" that records the path and the flag before the file is uploaded
UpdateWidget_MarksBeforeUpload(plan, id, sess, rem) ==
    LET a == sess.app
        widget_file_name == IF sess.widget_file_name = <<>> THEN base_filename(a)
                            ELSE sess.widget_file_name
        marked == [sess EXCEPT !.iframe_snippet = widget_file_name, !.has_generated = TRUE]
        start == [remote |-> rem, log |-> <<>>]
        e == ensure_repo_exists(plan, start)
        pg == ensure_pages_enabled(plan, e)
        u == upload_file_to_github(plan, pg, widget_file_name,
                                   Content(id, <<sess.uploaded_file.name, sess.widget_title>>))
        t == trigger_pages_build(plan, u)
        failed(x) == [session |-> [marked EXCEPT !.outcome.result = "failed",
                                                 !.outcome.error = TRUE,
                                                 !.outcome.generated = TRUE,
                                                 !.outcome.status = x.status,
                                                 !.outcome.log = x.log],
                      remote |-> x.remote]
    IN  IF e.raised THEN failed(e)
        ELSE IF u.raised THEN failed(u)
        ELSE [session |-> [marked EXCEPT !.outcome.result = "success",
                                         !.outcome.generated = TRUE,
                                         !.outcome.log = t.log],
              remote |-> t.remote]

\* app.py 1328-1417: the "Update widget" button
UpdateWidget(plan, id, sess, rem) ==
    LET a == sess.app
        widget_file_name == IF sess.widget_file_name = <<>> THEN base_filename(a)
                            ELSE sess.widget_file_name
        html_final == Content(id, <<sess.uploaded_file.name, sess.widget_title>>)
        start == [remote |-> rem, log |-> <<>>]
        e == ensure_repo_exists(plan, start)
        pg == ensure_pages_enabled(plan, e)
        u == upload_file_to_github(plan, pg, widget_file_name, html_final)
        t == trigger_pages_build(plan, u)
        failed(x) == [session |-> [sess EXCEPT !.outcome.result = "failed",
                                               !.outcome.error = TRUE,
                                               !.outcome.generated = TRUE,
                                               !.outcome.status = x.status,
                                               !.outcome.log = x.log],
                      remote |-> x.remote]
    IN  IF e.raised THEN failed(e)
        ELSE IF u.raised THEN failed(u)
        ELSE [session |-> [sess EXCEPT !.iframe_snippet = widget_file_name,
                                       !.has_generated = TRUE,
                                       !.outcome.result = "success",
                                       !.outcome.generated = TRUE,
                                       !.outcome.log = t.log],
              remote |-> t.remote]

\* app.py 1420-1466: the availability result and the options under it
AvailabilityOptions(sess) ==
    LET av == sess.availability
    IN  IF ~av.checked THEN sess
        ELSE IF ~av.repo_exists \/ ~av.file_exists
        THEN [sess EXCEPT !.widget_file_name = av.checked_filename]
        ELSE IF sess.file_conflict_choice = "Replace"
        THEN [sess EXCEPT !.widget_file_name = av.checked_filename]
        ELSE IF sess.file_conflict_choice = "Create additional"
        THEN [sess EXCEPT !.widget_file_name = av.suggested_new_filename]
        ELSE sess

\* app.py 1471-1529: the tabs are drawn, and the preview generated, once a
\* publish has succeeded
OutputTabs(sess) ==
    IF sess.has_generated THEN [sess EXCEPT !.outcome.generated = TRUE] ELSE sess

\* one run of the script of a list or table application, started by the
\* interaction event
ListScriptRun(plan, id, sess0, rem, event) ==
    LET sess == [sess0 EXCEPT !.outcome = [NoOutcome EXCEPT !.event = event]]
        load == ListLoad(sess)
        drawn == [sess EXCEPT !.outcome.controls = TRUE]
        clicked == IF event = "check" THEN PageAvailabilityCheck(plan, drawn, rem)
                   ELSE IF event = "update" THEN UpdateWidget(plan, id, drawn, rem)
                   ELSE [session |-> drawn, remote |-> rem]
    IN  IF load = "no_file" THEN [session |-> sess, remote |-> rem]
        ELSE IF load = "stop"
        THEN [session |-> [sess EXCEPT !.outcome.error = TRUE, !.outcome.stopped = TRUE],
              remote |-> rem]
        ELSE [session |-> OutputTabs(AvailabilityOptions(clicked.session)),
              remote |-> clicked.remote]

\* reset_generation_state that clears the draft only
reset_generation_state_DraftOnly(sess) ==
    [sess EXCEPT !.draft_html = <<>>, !.draft_ready = FALSE]

\* branded_map.py 1101-1110
reset_generation_state(sess) ==
    [sess EXCEPT !.draft_html = <<>>,
                 !.draft_ready = FALSE,
                 !.html_generated = FALSE,
                 !.generated_html = <<>>,
                 !.iframe_published = FALSE,
                 !.iframe_snippet = <<>>,
                 !.published_url = <<>>,
                 !.publish_status = ""]

\* branded_map.py 1123-1147: the document built from the table just read (named
\* by its file) and the applied settings
build_html_from_applied(sess) ==
    <<sess.uploaded_file.name, sess.applied.brand, sess.applied.page_title>>

\* apply_edits_and_update_preview that builds the draft from the settings applied
\* before
apply_edits_and_update_preview_StaleDraft(sess) ==
    [sess EXCEPT !.draft_html = build_html_from_applied(sess),
                 !.draft_ready = TRUE,
                 !.html_generated = FALSE,
                 !.generated_html = <<>>,
                 !.iframe_published = FALSE,
                 !.iframe_snippet = <<>>,
                 !.published_url = <<>>,
                 !.publish_status = "",
                 !.outcome.generated = TRUE]

\* apply_edits_and_update_preview that leaves what was published in place
apply_edits_and_update_preview_KeepsPublished(sess) ==
    LET applied == [sess EXCEPT !.applied = sess.edit]
    IN  [applied EXCEPT !.draft_html = build_html_from_applied(applied),
                        !.draft_ready = TRUE,
                        !.html_generated = FALSE,
                        !.generated_html = <<>>,
                        !.outcome.generated = TRUE]

\* branded_map.py 1149-1181: the edit_ values become the applied_ values,
\* draft_html is built from them, and what was generated or published from the
\* draft before is cleared
apply_edits_and_update_preview(sess) ==
    LET applied == [sess EXCEPT !.applied = sess.edit]
    IN  [applied EXCEPT !.draft_html = build_html_from_applied(applied),
                        !.draft_ready = TRUE,
                        !.html_generated = FALSE,
                        !.generated_html = <<>>,
                        !.iframe_published = FALSE,
                        !.iframe_snippet = <<>>,
                        !.published_url = <<>>,
                        !.publish_status = "",
                        !.outcome.generated = TRUE]

\* "Get the HTML code" that builds the document anew from the settings of the
\* edit panel
GetHtml_FromEdits(sess) ==
    [sess EXCEPT !.generated_html = build_html_from_applied([sess EXCEPT !.applied = sess.edit]),
                 !.html_generated = TRUE]

\* branded_map.py 1427-1430: the "Get the HTML code" button
GetHtml(sess) ==
    [sess EXCEPT !.generated_html = sess.draft_html, !.html_generated = TRUE]

\* Publish that undoes what it did to the repository when a later step fails
Publish_RollsBack(plan, id, sess, rem, replace_existing) ==
    LET gh_file == base_filename(sess.app)
        start == [remote |-> rem, log |-> <<>>]
        r == check_repo_exists(plan, start)
        f == IF r.value THEN check_file_exists(plan, r, gh_file)
             ELSE [raised |-> FALSE, status |-> r.status, value |-> FALSE,
                   remote |-> r.remote, log |-> r.log]
        e == ensure_repo_exists(plan, f)
        pg == ensure_pages_enabled(plan, e)
        u == upload_file_to_github(plan, pg, gh_file, Content(id, sess.generated_html))
        t == trigger_pages_build(plan, u)
        failed(x) == [session |-> [sess EXCEPT !.outcome.result = "failed",
                                               !.outcome.error = TRUE,
                                               !.outcome.status = x.status,
                                               !.outcome.log = x.log],
                      remote |-> rem]
    IN  IF r.raised THEN failed(r)
        ELSE IF f.raised THEN failed(f)
        ELSE IF f.value /\ ~replace_existing
        THEN [session |-> [sess EXCEPT !.outcome.result = "refused",
                                       !.outcome.error = TRUE,
                                       !.outcome.log = f.log],
              remote |-> rem]
        ELSE IF e.raised THEN failed(e)
        ELSE IF u.raised THEN failed(u)
        ELSE [session |-> [sess EXCEPT !.iframe_published = TRUE,
                                       !.published_url = gh_file,
                                       !.iframe_snippet = gh_file,
                                       !.outcome.result = "success",
                                       !.outcome.log = t.log],
              remote |-> t.remote]

\* Publish that does not look at the "Replace existing file" checkbox
Publish_IgnoresCheckbox(plan, id, sess, rem, replace_existing) ==
    LET gh_file == base_filename(sess.app)
        start == [remote |-> rem, log |-> <<>>]
        r == check_repo_exists(plan, start)
        f == IF r.value THEN check_file_exists(plan, r, gh_file)
             ELSE [raised |-> FALSE, status |-> r.status, value |-> FALSE,
                   remote |-> r.remote, log |-> r.log]
        e == ensure_repo_exists(plan, f)
        pg == ensure_pages_enabled(plan, e)
        u == upload_file_to_github(plan, pg, gh_file, Content(id, sess.generated_html))
        t == trigger_pages_build(plan, u)
        failed(x) == [session |-> [sess EXCEPT !.outcome.result = "failed",
                                               !.outcome.error = TRUE,
                                               !.outcome.status = x.status,
                                               !.outcome.log = x.log],
                      remote |-> x.remote]
    IN  IF r.raised THEN failed(r)
        ELSE IF f.raised THEN failed(f)
        ELSE IF FALSE
        THEN [session |-> [sess EXCEPT !.outcome.result = "refused",
                                       !.outcome.error = TRUE,
                                       !.outcome.log = f.log],
              remote |-> rem]
        ELSE IF e.raised THEN failed(e)
        ELSE IF u.raised THEN failed(u)
        ELSE [session |-> [sess EXCEPT !.iframe_published = TRUE,
                                       !.published_url = gh_file,
                                       !.iframe_snippet = gh_file,
                                       !.outcome.result = "success",
                                       !.outcome.log = t.log],
              remote |-> t.remote]

\* branded_map.py 1483-1537: the "Get the iframe (publish to GitHub Pages)"
\* button, with the file name left at BASE_WIDGET_FILENAME
Publish(plan, id, sess, rem, replace_existing) ==
    LET gh_file == base_filename(sess.app)
        start == [remote |-> rem, log |-> <<>>]
        r == check_repo_exists(plan, start)
        f == IF r.value THEN check_file_exists(plan, r, gh_file)
             ELSE [raised |-> FALSE, status |-> r.status, value |-> FALSE,
                   remote |-> r.remote, log |-> r.log]
        e == ensure_repo_exists(plan, f)
        pg == ensure_pages_enabled(plan, e)
        u == upload_file_to_github(plan, pg, gh_file, Content(id, sess.generated_html))
        t == trigger_pages_build(plan, u)
        failed(x) == [session |-> [sess EXCEPT !.outcome.result = "failed",
                                               !.outcome.error = TRUE,
                                               !.outcome.status = x.status,
                                               !.outcome.log = x.log],
                      remote |-> x.remote]
    IN  IF r.raised THEN failed(r)
        ELSE IF f.raised THEN failed(f)
        ELSE IF f.value /\ ~replace_existing
        THEN [session |-> [sess EXCEPT !.outcome.result = "refused",
                                       !.outcome.error = TRUE,
                                       !.outcome.log = f.log],
              remote |-> rem]
        ELSE IF e.raised THEN failed(e)
        ELSE IF u.raised THEN failed(u)
        ELSE [session |-> [sess EXCEPT !.iframe_published = TRUE,
                                       !.published_url = gh_file,
                                       !.iframe_snippet = gh_file,
                                       !.outcome.result = "success",
                                       !.outcome.log = t.log],
              remote |-> t.remote]

\* branded_map.py 1238-1305: the CSV load.  The fingerprint of a file is taken
\* to be its name.  The result is the session and whether the run goes on
CsvLoad(sess) ==
    LET f == sess.uploaded_file
        stop(x) == [session |-> [x EXCEPT !.outcome.error = TRUE, !.outcome.stopped = TRUE],
                    goes_on |-> FALSE]
        fresh == reset_generation_state([sess EXCEPT !.csv_fingerprint = f.name])
        \* 1262-1284: every edit_ value but the brand gets its default
        defaults == [fresh EXCEPT !.edit = [DefaultEdits EXCEPT !.brand = sess.edit.brand]]
    IN  IF f.name # sess.csv_fingerprint
        THEN IF f.shape \in {"unreadable", "no_rows"} THEN stop(fresh)
             ELSE [session |-> apply_edits_and_update_preview(defaults), goes_on |-> TRUE]
        ELSE IF f.shape = "unreadable" THEN stop(sess)
             ELSE [session |-> sess, goes_on |-> TRUE]

\* one run of the script of the map application, started by the interaction
\* event; replace_existing is the checkbox of the Iframe tab
MapScriptRun(plan, id, sess0, rem, event, replace_existing) ==
    LET sess == [sess0 EXCEPT !.outcome = [NoOutcome EXCEPT !.event = event]]
        load == CsvLoad(sess)
        loaded == load.session
        drawn == [loaded EXCEPT !.outcome.controls = TRUE]
        stop(x) == [x EXCEPT !.outcome.error = TRUE, !.outcome.stopped = TRUE]
    IN  \* 1311-1313: no file in the uploader
        IF sess.uploaded_file.shape = "none"
        THEN [session |-> [sess EXCEPT !.outcome.stopped = TRUE], remote |-> rem]
        ELSE IF ~load.goes_on THEN [session |-> loaded, remote |-> rem]
        \* 1315-1317: df.empty
        ELSE IF sess.uploaded_file.shape = "no_rows"
        THEN [session |-> stop(loaded), remote |-> rem]
        \* 1351-1353: no column is left for the metric
        ELSE IF sess.uploaded_file.shape = "missing_column"
        THEN [session |-> stop(loaded), remote |-> rem]
        ELSE IF event = "update_map"
        THEN [session |-> apply_edits_and_update_preview(drawn), remote |-> rem]
        ELSE IF event = "get_html"
        THEN [session |-> GetHtml(drawn), remote |-> rem]
        ELSE IF event = "publish"
        THEN Publish(plan, id, drawn, rem, replace_existing)
        ELSE [session |-> drawn, remote |-> rem]

\* a script run of whichever application the session runs
ScriptRun(plan, id, sess, rem, event, replace_existing) ==
    IF sess.app \in ListApps THEN ListScriptRun(plan, id, sess, rem, event)
    ELSE MapScriptRun(plan, id, sess, rem, event, replace_existing)

(***************************************************************************)
(* Uploaded tables.                                                        *)
(***************************************************************************)
SeqsUpTo(S, n) == UNION {[1..k -> S] : k \in 0..n}

\* rows of a map upload: the state column and the metric column as text
RowUniverse ==
    {
      [state |-> <<"C","a","l","i","f","o","r","n","i","a">>, value |-> <<"3","3",".","5","%">>],
      [state |-> <<"C","a">>, value |-> <<"1","0">>],
      [state |-> <<"N","o","w","h","e","r","e">>, value |-> <<"9","9">>],
      [state |-> <<"T","e","x","a","s">>, value |-> <<"3","3",".","5">>],
      [state |-> <<" ","n","y"," ">>, value |-> <<"1",",","2","3","4">>],
      [state |-> <<"T","X">>, value |-> <<"a","b","c">>],
      [state |-> <<"O","h","i","o">>, value |-> <<"5">>],
      [state |-> <<"U","t","a","h">>, value |-> <<"-","2",".","5">>]
    }

\* rows of a list upload after the column clean-up of the upload step
ListRowUniverse ==
    {
      [state |-> <<"U","t","a","h">>, probability |-> ToNumeric(<<"2","5">>)],
      [state |-> <<"O","h","i","o">>, probability |-> ToNumeric(<<"2","5">>)],
      [state |-> <<"I","o","w","a">>, probability |-> ToNumeric(<<"2","0",".","5">>)],
      [state |-> <<"T","e","x","a","s">>, probability |-> ToNumeric(<<"1","0">>)],
      [state |-> <<"M","a","i","n","e">>, probability |-> ToNumeric(<<"1","0">>)],
      [state |-> <<"I","d","a","h","o">>, probability |-> ToNumeric(<<"4",".","7","5">>)]
    }

\* '%' and ',' are the characters the coercion removes
Marks == {"%", ","}

\* s with the character c put in after its first pos characters
InsertAt(s, pos, c) == SubSeq(s, 1, pos) \o <<c>> \o SubSeq(s, pos + 1, Len(s))

\* the texts got from the texts of T by putting in up to k marks anywhere
RECURSIVE WithMarks(_, _)
WithMarks(T, k) ==
    IF k = 0 THEN T
    ELSE LET prev == WithMarks(T, k - 1)
         IN  prev \cup UNION {{InsertAt(s, pos, c) : pos \in 0..Len(s), c \in Marks} :
                                  s \in prev}

\* cells of a value column as astype(str) shows them: numbers, texts that are no
\* number, the empty text and "nan" (a missing cell)
MetricBases ==
    { <<"1","2",".","5">>, <<"1","2","3","4">>, <<"7">>, <<"-","3">>,
      <<"0",".","5","0">>, <<"a","b","c">>, <<>>, <<"n","a","n">>,
      <<"1",".","2",".","3">>, <<"1","2","a">> }

MetricTexts == WithMarks(MetricBases, MaxMarks)

\* values of the top_n argument: one below the number of rows an upload can
\* have, and the 10 the application passes (line 1143)
TopNs == {2, TABLE_TOP_N}

(***************************************************************************)
(* Values of the variables of an operation that is not running.            *)
(***************************************************************************)
NormIdle == identifier = <<>> /\ state_abbr = NaN

PipeIdle == df = <<>> /\ show_state_labels = FALSE /\ caller_top_n = 0 /\ map_out = <<>>

ListIdle == list_df = <<>> /\ list_out = <<>>

AllocIdle == app = "app" /\ response = <<>> /\ alloc_out = <<>>

CoerceIdle == metric_text = <<>> /\ coerced = NaNValue /\ row_kept = FALSE

NoRepository == [repo |-> FALSE, pages |-> FALSE, files |-> <<>>]

AppIdle == sessions = <<>> /\ remote = NoRepository

normVars == <<identifier, state_abbr>>
pipeVars == <<df, show_state_labels, caller_top_n, map_out>>
listVars == <<list_df, list_out>>
allocVars == <<app, response, alloc_out>>
coerceVars == <<metric_text, coerced, row_kept>>
appVars == <<sessions, remote>>

(***************************************************************************)
(* The normalizer on one cell.                                             *)
(***************************************************************************)
InitNorm ==
    /\ pc = "input"
    /\ identifier \in Identifiers
    /\ state_abbr = NaN
    /\ PipeIdle /\ ListIdle /\ AllocIdle /\ CoerceIdle /\ AppIdle

Normalize ==
    /\ pc = "input"
    /\ state_abbr' = NormalizeState(identifier)
    /\ pc' = "done"
    /\ UNCHANGED <<identifier, pipeVars, listVars, allocVars, coerceVars, appVars>>

NextNorm == Normalize

SpecNorm == InitNorm /\ [][NextNorm]_vars

(***************************************************************************)
(* The map pipeline on one uploaded table.                                 *)
(***************************************************************************)
InitPipe ==
    /\ pc = "input"
    /\ df \in SeqsUpTo(RowUniverse, MaxRows)
    /\ show_state_labels \in BOOLEAN
    /\ caller_top_n \in TopNs
    /\ map_out = <<>>
    /\ NormIdle /\ ListIdle /\ AllocIdle /\ CoerceIdle /\ AppIdle

Generate ==
    /\ pc = "input"
    /\ map_out' = generate_map_table_html_from_df(df, show_state_labels, caller_top_n)
    /\ df' = CallerFrameAfter(df)
    /\ pc' = "done"
    /\ UNCHANGED <<show_state_labels, caller_top_n, normVars, listVars, allocVars, coerceVars, appVars>>

\* the caller builds the document once more from the frame it holds, as
\* build_html_from_applied does on every "Update the map contents"
GenerateAgain ==
    /\ pc = "done"
    /\ map_out' = generate_map_table_html_from_df(df, show_state_labels, caller_top_n)
    /\ df' = CallerFrameAfter(df)
    /\ pc' = "again"
    /\ UNCHANGED <<show_state_labels, caller_top_n, normVars, listVars, allocVars, coerceVars, appVars>>

NextPipe == Generate \/ GenerateAgain

SpecPipe == InitPipe /\ [][NextPipe]_vars

(***************************************************************************)
(* The coercion of one cell of the value column, in a table of one row     *)
(* whose state resolves.                                                   *)
(***************************************************************************)
InitCoerce ==
    /\ pc = "input"
    /\ metric_text \in MetricTexts
    /\ coerced = NaNValue
    /\ row_kept = FALSE
    /\ NormIdle /\ PipeIdle /\ ListIdle /\ AllocIdle /\ AppIdle

Coerce ==
    /\ pc = "input"
    /\ LET cleaned == CleanRows(<<[state |-> <<"T","e","x","a","s">>, value |-> metric_text]>>)
       IN  /\ coerced' = cleaned[1].value
           /\ row_kept' = (DropInvalid(cleaned) # <<>>)
    /\ pc' = "done"
    /\ UNCHANGED <<metric_text, normVars, pipeVars, listVars, allocVars, appVars>>

NextCoerce == Coerce

SpecCoerce == InitCoerce /\ [][NextCoerce]_vars

(***************************************************************************)
(* The ranked-list generator on one uploaded table.                        *)
(***************************************************************************)
InitList ==
    /\ pc = "input"
    /\ list_df \in SeqsUpTo(ListRowUniverse, MaxRows)
    /\ list_out = <<>>
    /\ NormIdle /\ PipeIdle /\ AllocIdle /\ CoerceIdle /\ AppIdle

GenerateList ==
    /\ pc = "input"
    /\ list_out' = generate_html_from_df(list_df)
    /\ pc' = "done"
    /\ UNCHANGED <<list_df, normVars, pipeVars, allocVars, coerceVars, appVars>>

NextList == GenerateList

SpecList == InitList /\ [][NextList]_vars

(***************************************************************************)
(* The allocator on one answer of the contents request.                    *)
(***************************************************************************)
InitAlloc ==
    /\ pc = "input"
    /\ app \in Apps
    /\ response \in Responses(WidgetPrefix(app))
    /\ alloc_out = <<>>
    /\ NormIdle /\ PipeIdle /\ ListIdle /\ CoerceIdle /\ AppIdle

FindNextWidgetFilename ==
    /\ pc = "input"
    /\ alloc_out' = find_next_widget_filename(app, response)
    /\ pc' = "done"
    /\ UNCHANGED <<app, response, normVars, pipeVars, listVars, coerceVars, appVars>>

NextAlloc == FindNextWidgetFilename

SpecAlloc == InitAlloc /\ [][NextAlloc]_vars

(***************************************************************************)
(* A session of one application against a repository whose requests may     *)
(* fail.                                                                   *)
(***************************************************************************)
\* what was in the repository before the session: written by nobody of the model
OldContent == Content(0, <<"old">>)

\* the files a repository of the model may hold: the application's base file
\* and the first numbered widget file
RepoNames(a) == {base_filename(a), <<WidgetPrefix(a), "1">> \o DotHtml}

Repositories(N) ==
    {NoRepository}
    \cup {[repo |-> TRUE, pages |-> pg, files |-> [n \in S |-> OldContent]] :
             pg \in BOOLEAN, S \in SUBSET N}

\* the repository of the model holds no other file than those of RepoNames
HasRoom(a, path) == path \in RepoNames(a)

\* the step of session s: its script runs once on the interaction event
Interact(s, plan, sess, event, replace_existing) ==
    LET run == ScriptRun(plan, s, sess, remote, event, replace_existing)
    IN  /\ sessions' = [sessions EXCEPT ![s] = run.session]
        /\ remote' = run.remote
        /\ UNCHANGED <<pc, normVars, pipeVars, listVars, allocVars, coerceVars>>

InitSession ==
    /\ pc = "session"
    /\ \E a \in Apps :
          /\ sessions = <<NewSession(a)>>
          /\ remote \in Repositories({base_filename(a)})
    /\ NormIdle /\ PipeIdle /\ ListIdle /\ AllocIdle /\ CoerceIdle

\* a file is put into the uploader, in place of the one that may be there
UploadCsv(s) ==
    \E f \in CsvFiles :
        /\ f # sessions[s].uploaded_file
        /\ Interact(s, NoFaults, [sessions[s] EXCEPT !.uploaded_file = f], "upload", FALSE)

\* the file is taken out of the uploader
RemoveCsv(s) ==
    /\ sessions[s].uploaded_file # NoFile
    /\ Interact(s, NoFaults, [sessions[s] EXCEPT !.uploaded_file = NoFile], "remove", FALSE)

ClickPageAvailabilityCheck(s, P) ==
    /\ sessions[s].app \in ListApps
    /\ sessions[s].outcome.controls
    /\ \E plan \in P : Interact(s, plan, sessions[s], "check", FALSE)

\* another option of the radio under the availability result is picked
ChooseConflictOption(s) ==
    /\ sessions[s].app \in ListApps
    /\ sessions[s].outcome.controls
    /\ sessions[s].availability.checked
    /\ sessions[s].availability.repo_exists /\ sessions[s].availability.file_exists
    /\ \E choice \in {"Replace", "Create additional", "Change campaign"} :
          /\ choice # sessions[s].file_conflict_choice
          /\ Interact(s, NoFaults, [sessions[s] EXCEPT !.file_conflict_choice = choice],
                      "choose", FALSE)

ClickUpdateWidget(s, P) ==
    /\ sessions[s].app \in ListApps
    /\ sessions[s].outcome.controls
    /\ HasRoom(sessions[s].app,
               IF sessions[s].widget_file_name = <<>> THEN base_filename(sessions[s].app)
               ELSE sessions[s].widget_file_name)
    /\ \E plan \in P : Interact(s, plan, sessions[s], "update", FALSE)

ClickUpdateMap(s) ==
    /\ sessions[s].app \notin ListApps
    /\ sessions[s].outcome.controls
    /\ Interact(s, NoFaults, sessions[s], "update_map", FALSE)

ClickGetHtml(s) ==
    /\ sessions[s].app \notin ListApps
    /\ sessions[s].outcome.controls
    /\ Interact(s, NoFaults, sessions[s], "get_html", FALSE)

\* the publish button is disabled until the HTML has been generated, and
\* without a token
ClickPublish(s, P) ==
    /\ sessions[s].app \notin ListApps
    /\ sessions[s].outcome.controls
    /\ sessions[s].html_generated
    /\ sessions[s].github_token
    /\ HasRoom(sessions[s].app, base_filename(sessions[s].app))
    /\ \E plan \in P, replace_existing \in BOOLEAN :
          Interact(s, plan, sessions[s], "publish", replace_existing)

NextSession ==
    \/ UploadCsv(1)
    \/ RemoveCsv(1)
    \/ ClickPageAvailabilityCheck(1, CheckPlans)
    \/ ChooseConflictOption(1)
    \/ ClickUpdateWidget(1, UpdatePlans)
    \/ ClickUpdateMap(1)
    \/ ClickGetHtml(1)
    \/ ClickPublish(1, PublishPlans)

SpecSession == InitSession /\ [][NextSession]_vars

(***************************************************************************)
(* A session of a list or table application in which the title of the      *)
(* widget is changed.                                                      *)
(***************************************************************************)
InitWidget ==
    /\ pc = "session"
    /\ \E a \in ListApps :
          /\ sessions = <<NewSession(a)>>
          /\ remote \in Repositories({base_filename(a)})
    /\ NormIdle /\ PipeIdle /\ ListIdle /\ AllocIdle /\ CoerceIdle

\* ChangeTitle with the text input drawn as soon as a file is loaded
ChangeTitle_BeforePublish(s) ==
    /\ sessions[s].app \in ListApps
    /\ sessions[s].outcome.controls
    /\ \E title \in {"default_title", "my_title"} :
          /\ title # sessions[s].widget_title
          /\ Interact(s, NoFaults, [sessions[s] EXCEPT !.widget_title = title], "title", FALSE)

\* the title is typed into the text input of the "Configure & preview widget"
\* tab; the tabs are drawn when a file is loaded and has_generated is set
ChangeTitle(s) ==
    /\ sessions[s].app \in ListApps
    /\ sessions[s].outcome.controls
    /\ sessions[s].has_generated
    /\ \E title \in {"default_title", "my_title"} :
          /\ title # sessions[s].widget_title
          /\ Interact(s, NoFaults, [sessions[s] EXCEPT !.widget_title = title], "title", FALSE)

NextWidget ==
    \/ UploadCsv(1)
    \/ RemoveCsv(1)
    \/ ClickUpdateWidget(1, UpdatePlans)
    \/ ChangeTitle(1)

SpecWidget == InitWidget /\ [][NextWidget]_vars

(***************************************************************************)
(* A session of the map application in which the settings of the edit      *)
(* panel are changed, with or without a GitHub token.                      *)
(***************************************************************************)
InitMap ==
    /\ pc = "session"
    /\ \E token \in BOOLEAN :
          sessions = <<[NewSession("branded_map") EXCEPT !.github_token = token]>>
    /\ remote \in Repositories({base_filename("branded_map")})
    /\ NormIdle /\ PipeIdle /\ ListIdle /\ AllocIdle /\ CoerceIdle

\* a setting is changed: the brand above the uploader at any time, the page
\* title once the edit tab is drawn; nothing is applied until "Update the map
\* contents" is clicked
ChangeEdits(s) ==
    \E e \in Edits :
        /\ e # sessions[s].edit
        /\ e.page_title # sessions[s].edit.page_title => sessions[s].outcome.controls
        /\ Interact(s, NoFaults, [sessions[s] EXCEPT !.edit = e], "edit", FALSE)

NextMap ==
    \/ UploadCsv(1)
    \/ RemoveCsv(1)
    \/ ChangeEdits(1)
    \/ ClickUpdateMap(1)
    \/ ClickGetHtml(1)
    \/ ClickPublish(1, PublishPlans)

SpecMap == InitMap /\ [][NextMap]_vars

(***************************************************************************)
(* Two sessions of a list or table application, each with its own upload,  *)
(* against one repository that holds the base file and answers every       *)
(* request.                                                                *)
(***************************************************************************)
\* a session right after the script has run on the upload of file f
Uploaded(a, id, f) ==
    ListScriptRun(NoFaults, id, [NewSession(a) EXCEPT !.uploaded_file = f],
                  NoRepository, "upload").session

RaceSessions == {1, 2}

InitRace ==
    /\ pc = "session"
    /\ \E a \in ListApps :
          /\ sessions = <<Uploaded(a, 1, [name |-> "A", shape |-> "ok"]),
                          Uploaded(a, 2, [name |-> "B", shape |-> "ok"])>>
          /\ remote \in {r \in Repositories(RepoNames(a)) :
                            r.repo /\ base_filename(a) \in DOMAIN r.files}
    /\ NormIdle /\ PipeIdle /\ ListIdle /\ AllocIdle /\ CoerceIdle

RaceCheck == \E s \in RaceSessions : ClickPageAvailabilityCheck(s, {NoFaults})

RaceChoose == \E s \in RaceSessions : ChooseConflictOption(s)

RaceUpdate == \E s \in RaceSessions : ClickUpdateWidget(s, {NoFaults})

NextRace == RaceCheck \/ RaceChoose \/ RaceUpdate

SpecRace == InitRace /\ [][NextRace]_vars

(***************************************************************************)
(* Properties of the map pipeline (SpecPipe).                              *)
(***************************************************************************)
\* number of records of the working set whose metric is strictly greater than v
GreaterCount(records, v) ==
    Cardinality({j \in DOMAIN records : NumLT(v, records[j].value)})

RanksOf(records) == [i \in DOMAIN records |-> records[i].rank]

ValuesOf(records) == [i \in DOMAIN records |-> records[i].value]

Num(n) == [ok |-> TRUE, m |-> n, e |-> 0]

\* C1: in the map pipeline every surviving record's rank is 1 + the number of
\* surviving records with a strictly greater metric; tied records share a rank and
\* the next distinct value skips: metrics [10, 10, 5] get ranks [1, 1, 3].
C1_RankIsOnePlusGreater ==
    pc = "done" =>
        /\ \A i \in DOMAIN map_out.records :
              map_out.records[i].rank = 1 + GreaterCount(map_out.records, map_out.records[i].value)
        /\ ValuesOf(map_out.records) = <<Num(10), Num(10), Num(5)>>
              => RanksOf(map_out.records) = <<1, 1, 3>>

C1_Witness ==
    /\ pc = "done"
    /\ ValuesOf(map_out.records) = <<Num(10), Num(10), Num(5)>>
    /\ RanksOf(map_out.records) = <<1, 1, 3>>

\* C2: in both ranked tables the numeral shown in a row is the rank of that row's
\* record (1 + the number of records with a strictly greater metric), so records
\* of equal metric show the same numeral, as in the map label.
C2_TableNumeralIsRank ==
    pc = "done" =>
        /\ \A p \in DOMAIN map_out.high :
              map_out.high[p].pill =
                 IntToStr(1 + GreaterCount(map_out.records, map_out.high[p].value))
        /\ \A p \in DOMAIN map_out.low :
              map_out.low[p].pill =
                 IntToStr(1 + GreaterCount(map_out.records, map_out.low[p].value))

\* the four rows of the end-to-end example
P8Rows ==
    << [state |-> <<"C","a","l","i","f","o","r","n","i","a">>, value |-> <<"3","3",".","5","%">>],
       [state |-> <<"C","a">>, value |-> <<"1","0">>],
       [state |-> <<"N","o","w","h","e","r","e">>, value |-> <<"9","9">>],
       [state |-> <<"T","e","x","a","s">>, value |-> <<"3","3",".","5">>] >>

\* C5: the records that reach ranking are exactly the input rows whose identifier
\* resolves and whose metric parses; every such row is kept as its own record,
\* also when several rows resolve to one code, and of the rows (California, 33.5%),
\* (Ca, 10), (Nowhere, 99), (Texas, 33.5) exactly three survive.
C5_SurvivorsAreResolvedAndParsed ==
    pc = "done" =>
        LET recs == map_out.records
            kept == {recs[k].index : k \in DOMAIN recs}
        IN  /\ \A i \in DOMAIN df :
                  i \in kept <=> /\ NormalizeState(df[i].state) # NaN
                                 /\ CoerceMetric(df[i].value).ok
            /\ Cardinality(kept) = Len(recs)
            /\ \A k \in DOMAIN recs : recs[k].state_abbr # NaN /\ recs[k].value.ok
            /\ df = P8Rows => Len(recs) = 3

C5_Witness ==
    /\ pc = "done"
    /\ df = P8Rows
    /\ [k \in DOMAIN map_out.records |-> map_out.records[k].index] = <<1, 2, 4>>
    /\ map_out.records[1].state_abbr = map_out.records[2].state_abbr

\* C10: fill_norm is 0.5 for every record when max = min (a single record
\* included), and otherwise (metric - min) / (max - min): it lies in [0, 1], is 0
\* for a record with metric = min and 1 for a record with metric = max.
C10_FillNorm ==
    pc = "done" /\ map_out.valid =>
        LET recs == map_out.records
            E == CHOOSE x \in {recs[k].value.e : k \in DOMAIN recs} :
                    \A k \in DOMAIN recs : recs[k].value.e <= x
            S(k) == Scaled(recs[k].value, E)
            lo == CHOOSE x \in {S(k) : k \in DOMAIN recs} : \A k \in DOMAIN recs : x <= S(k)
            hi == CHOOSE x \in {S(k) : k \in DOMAIN recs} : \A k \in DOMAIN recs : S(k) <= x
        IN  \A k \in DOMAIN recs :
               LET f == recs[k].fill_norm
               IN  IF lo = hi
                   THEN f.n = 1 /\ f.d = 2
                   ELSE /\ f.d > 0
                        /\ f.n * (hi - lo) = f.d * (S(k) - lo)
                        /\ 0 <= f.n /\ f.n <= f.d
                        /\ S(k) = lo => f.n = 0
                        /\ S(k) = hi => f.n = f.d

C10_Witness ==
    /\ pc = "done" /\ map_out.valid
    /\ \E a, b, c \in DOMAIN map_out.records :
          /\ map_out.records[a].fill_norm.n = 0
          /\ map_out.records[b].fill_norm.n = map_out.records[b].fill_norm.d
          /\ 0 < map_out.records[c].fill_norm.n
          /\ map_out.records[c].fill_norm.n < map_out.records[c].fill_norm.d

\* fractions compared by cross-multiplication; the denominators are positive
FracLE(f, g) == f.n * g.d <= g.n * f.d

\* C11: within one prepared dataset fill_norm (the norm_position) is monotonic
\* non-decreasing in the metric: for any two surviving records a and b,
\* metric(a) <= metric(b) implies fill_norm(a) <= fill_norm(b), and equal
\* metrics give equal fill_norm.
C11_FillNormMonotonic ==
    pc = "done" =>
        \A a, b \in DOMAIN map_out.records :
            LET ra == map_out.records[a]
                rb == map_out.records[b]
            IN  /\ NumLE(ra.value, rb.value) => FracLE(ra.fill_norm, rb.fill_norm)
                /\ (NumLE(ra.value, rb.value) /\ NumLE(rb.value, ra.value))
                      => /\ FracLE(ra.fill_norm, rb.fill_norm)
                         /\ FracLE(rb.fill_norm, ra.fill_norm)

C11_Witness ==
    /\ pc = "done"
    /\ \E a, b, c \in DOMAIN map_out.records :
          /\ a # b
          /\ map_out.records[a].value = map_out.records[b].value
          /\ NumLT(map_out.records[c].value, map_out.records[a].value)
          /\ ~FracLE(map_out.records[a].fill_norm, map_out.records[c].fill_norm)
          /\ map_out.records[a].fill_norm = map_out.records[b].fill_norm

\* C12: the highest table lists the surviving records in descending metric order
\* and the lowest table in ascending metric order, and each table holds exactly
\* the first min(top_n, number of survivors) records of its order, top_n being
\* the value the caller passed.
C12_TablesAreFirstTopN ==
    pc = "done" /\ map_out.valid =>
        LET recs == map_out.records
            k == Min2(caller_top_n, Len(recs))
            LessCount(v) == Cardinality({j \in DOMAIN recs : NumLT(recs[j].value, v)})
        IN  /\ Len(map_out.high) = k
            /\ Len(map_out.low) = k
            /\ \A p \in DOMAIN map_out.high :
                  /\ GreaterCount(recs, map_out.high[p].value) < p
                  /\ \A q \in DOMAIN map_out.high :
                        p < q => NumLE(map_out.high[q].value, map_out.high[p].value)
            /\ \A p \in DOMAIN map_out.low :
                  /\ LessCount(map_out.low[p].value) < p
                  /\ \A q \in DOMAIN map_out.low :
                        p < q => NumLE(map_out.low[p].value, map_out.low[q].value)

\* C18: when every row is dropped by normalization and coercion the map
\* generator returns the "No valid state/metric data to display." message in
\* place of a widget: no map record, no label and no table row is produced.
C18_AllDroppedGivesMessage ==
    (/\ pc = "done"
     /\ \A i \in DOMAIN df : \/ NormalizeState(df[i].state) = NaN
                              \/ ~CoerceMetric(df[i].value).ok)
        => /\ ~map_out.valid
           /\ map_out.records = <<>>
           /\ map_out.label_text = <<>>
           /\ map_out.high = <<>>
           /\ map_out.low = <<>>

C18_Witness ==
    /\ pc = "done"
    /\ ~map_out.valid
    /\ \E i, j \in DOMAIN df :
          /\ NormalizeState(df[i].state) # NaN
          /\ ~CoerceMetric(df[i].value).ok
          /\ NormalizeState(df[j].state) = NaN
          /\ CoerceMetric(df[j].value).ok

RECURSIVE IsMarkedFormOf(_, _)
IsMarkedFormOf(t, b) ==
    IF t = <<>> THEN b = <<>>
    ELSE IF Head(t) \in {"%", ","} THEN IsMarkedFormOf(Tail(t), b)
    ELSE b # <<>> /\ Head(b) = Head(t) /\ IsMarkedFormOf(Tail(t), Tail(b))

\* numerals and the numbers they denote, as m * 10^-e
NumeralValues ==
    { [text |-> <<"1","2",".","5">>, m |-> 125, e |-> 1],
      [text |-> <<"1","2","3","4">>, m |-> 1234, e |-> 0],
      [text |-> <<"7">>, m |-> 7, e |-> 0],
      [text |-> <<"-","3">>, m |-> 0 - 3, e |-> 0],
      [text |-> <<"0",".","5","0">>, m |-> 5, e |-> 1] }

NotNumerals ==
    { <<"a","b","c">>, <<>>, <<"n","a","n">>, <<"1",".","2",".","3">>, <<"1","2","a">> }

\* C20: the coercion removes every '%' and ',' of the metric text and parses the
\* rest as a number: "12.5%" becomes 12.5, "1,234" becomes 1234, and a text that
\* is no number once they are removed ("abc", the empty text, a missing cell) is
\* unparsable and its row is dropped.
C20_CoercionStripsMarks ==
    pc = "done" =>
        /\ \A x \in NumeralValues :
              IsMarkedFormOf(metric_text, x.text)
                 => coerced = [ok |-> TRUE, m |-> x.m, e |-> x.e] /\ row_kept
        /\ \A b \in NotNumerals :
              IsMarkedFormOf(metric_text, b) => ~coerced.ok /\ ~row_kept
        /\ metric_text = <<"1","2",".","5","%">>
              => coerced = [ok |-> TRUE, m |-> 125, e |-> 1]
        /\ metric_text = <<"1",",","2","3","4">>
              => coerced = [ok |-> TRUE, m |-> 1234, e |-> 0]

C20_Witness ==
    /\ pc = "done"
    /\ metric_text = <<"1",",","2","3","4","%">>
    /\ coerced = [ok |-> TRUE, m |-> 1234, e |-> 0]
    /\ row_kept

(***************************************************************************)
(* Property of the ranked-list generator (SpecList).                       *)
(***************************************************************************)
\* C3: in the ranked-list widget ranks are not ordinal: a row's rank is 1 + the
\* number of rows with a strictly greater probability, so rows of equal
\* probability get the same rank.
C3_ListRankIsOnePlusGreater ==
    pc = "done" =>
        \A i \in DOMAIN list_out :
            list_out[i].rank =
               IntToStr(1 + Cardinality({j \in DOMAIN list_out :
                                  NumLT(list_out[i].probability, list_out[j].probability)}))

(***************************************************************************)
(* Property of the normalizer (SpecNorm).                                  *)
(***************************************************************************)
\* the cell, trimmed, spells the text t in some letter case
IsSpellingOf(raw, t) == StrLower(StrStrip(raw)) = StrLower(t)

\* C4: a cell that, trimmed, is a known full name or a known 2-letter code in any
\* letter case is mapped to that state's canonical upper-case 2-letter code.
C4_KnownSpellingsResolve ==
    pc = "done" =>
        \A i \in DOMAIN STATE_ABBR :
            (IsSpellingOf(identifier, STATE_ABBR[i].name)
                \/ IsSpellingOf(identifier, STATE_ABBR[i].code))
            => /\ state_abbr = STATE_ABBR[i].code
               /\ state_abbr = StrUpper(state_abbr) /\ Len(state_abbr) = 2

C4_Witness ==
    /\ pc = "done"
    /\ identifier = <<" ","n","E","W"," ","Y","O","R","K"," ">>
    /\ state_abbr = <<"N", "Y">>

\* the canonical 2-letter codes
CanonicalCodes == {STATE_ABBR[i].code : i \in DOMAIN STATE_ABBR}

\* the cell, trimmed, spells a known name or a known code in some letter case
Resolvable(raw) ==
    \E i \in DOMAIN STATE_ABBR :
        IsSpellingOf(raw, STATE_ABBR[i].name) \/ IsSpellingOf(raw, STATE_ABBR[i].code)

\* C21: whatever a cell resolves to is a canonical 2-letter code that resolves to
\* itself, a cell that is a canonical code comes back unchanged, and a cell that
\* spells no known name or code resolves to nothing.
C21_CanonicalCodesAreFixed ==
    pc = "done" =>
        /\ state_abbr # NaN =>
              /\ state_abbr \in CanonicalCodes
              /\ NormalizeState(state_abbr) = state_abbr
        /\ identifier \in CanonicalCodes => state_abbr = identifier
        /\ ~Resolvable(identifier) => state_abbr = NaN

\* the canonical code TX was put in and came back
C21_Witness ==
    /\ pc = "done"
    /\ identifier = <<"T", "X">>
    /\ state_abbr = <<"T", "X">>

(***************************************************************************)
(* Properties of the filename allocator (SpecAlloc).                       *)
(***************************************************************************)
\* the request was answered 200 with a JSON list of objects
ListingAvailable ==
    /\ response.arrived
    /\ response.status = 200
    /\ response.body.kind = "list"
    /\ \A k \in DOMAIN response.body.items : response.body.items[k].object

Zeros(n) == [i \in 1..n |-> "0"]

\* name is the letter p, a numeral of N (leading zeros allowed) and ".html"
IsWidgetNameOf(p, name, N) ==
    \E z \in 0..2 : name = <<p>> \o Zeros(z) \o IntToStr(N) \o DotHtml

\* names of the files of the listing
FileNames == {response.body.items[k].name :
                 k \in {j \in DOMAIN response.body.items :
                           response.body.items[j].type = "file"}}

\* the numbers N for which a file prefix + N + ".html" is in the listing
UsedNumbers ==
    {N \in 0..99 : \E name \in FileNames : IsWidgetNameOf(WidgetPrefix(app), name, N)}

Largest(S) == IF S = {} THEN 0 ELSE CHOOSE x \in S : \A y \in S : y <= x

WidgetName(a, n) == <<WidgetPrefix(a)>> \o IntToStr(n) \o DotHtml

\* C6: the allocator returns prefix + (M + 1) + ".html", M the largest N with a
\* file named prefix + N + ".html" in the listing and 0 when there is none; names
\* that match in part or in another letter case do not count.  With w1.html,
\* w2.html, w9.html and notes.txt it returns w10.html, with no entry w1.html.
C6_NextIsLargestPlusOne ==
    pc = "done" /\ ListingAvailable =>
        /\ alloc_out = [raised |-> FALSE, name |-> WidgetName(app, Largest(UsedNumbers) + 1)]
        /\ (app = "app" /\ FileNames = {WidgetName("app", 1), WidgetName("app", 2),
                                        WidgetName("app", 9),
                                        <<"n","o","t","e","s",".","t","x","t">>})
              => alloc_out.name = <<"w", "1", "0", ".", "h", "t", "m", "l">>
        /\ response.body.items = <<>> => alloc_out.name = WidgetName(app, 1)

C6_Witness ==
    /\ pc = "done" /\ ListingAvailable /\ app = "app"
    /\ Len(response.body.items) = 4
    /\ FileNames = {WidgetName("app", 1), WidgetName("app", 2), WidgetName("app", 9),
                    <<"n","o","t","e","s",".","t","x","t">>}
    /\ alloc_out.name = <<"w", "1", "0", ".", "h", "t", "m", "l">>

ReturnedNumber == CHOOSE n \in 1..100 : alloc_out.name = WidgetName(app, n)

\* C8 as stated: the returned suffix is the smallest positive integer n such that
\* prefix + n + ".html" is not in the listing.
C8_NextIsLowestUnused ==
    pc = "done" /\ ListingAvailable =>
        /\ \E n \in 1..100 : alloc_out.name = WidgetName(app, n)
        /\ WidgetName(app, ReturnedNumber) \notin FileNames
        /\ \A k \in 1..(ReturnedNumber - 1) : WidgetName(app, k) \in FileNames

\* C8 amended: the returned suffix is the smallest positive integer greater than
\* every N for which a file prefix + N + ".html" is in the listing.
C8_NextIsLowestAboveUsed ==
    pc = "done" /\ ListingAvailable =>
        /\ \E n \in 1..100 : alloc_out.name = WidgetName(app, n)
        /\ \A N \in UsedNumbers : N < ReturnedNumber
        /\ \A k \in 1..(ReturnedNumber - 1) : \E N \in UsedNumbers : k <= N

C8_Witness ==
    /\ pc = "done" /\ ListingAvailable
    /\ UsedNumbers = {2, 9}
    /\ alloc_out.name = WidgetName(app, 10)

\* C9: when the listing request is answered with a status other than 200, or with
\* a body that cannot be read as a list of entries, the allocator raises nothing
\* and returns prefix + "1" + ".html", as for an empty listing.
C9_UnavailableListingGivesDefault ==
    pc = "done" /\ response.arrived /\ ~ListingAvailable =>
        /\ alloc_out = [raised |-> FALSE, name |-> <<WidgetPrefix(app), "1">> \o DotHtml]
        /\ alloc_out =
              find_next_widget_filename(app,
                 [arrived |-> TRUE, status |-> 200,
                  body |-> [kind |-> "list", items |-> <<>>]])

C9_Witness ==
    /\ pc = "done" /\ response.arrived
    /\ response.status = 404
    /\ alloc_out = [raised |-> FALSE, name |-> <<WidgetPrefix(app), "1">> \o DotHtml]

(***************************************************************************)
(* Property of two sessions on one repository (SpecRace).                  *)
(***************************************************************************)
\* no session of the model has written to the repository yet
NobodyPublished == \A n \in DOMAIN remote.files : remote.files[n] = OldContent

\* C13: two sessions that check the repository before either has published are
\* given the same next file name, and nothing stops either from publishing to a
\* path the other has published to: every "Update widget" succeeds and leaves the
\* session's own document at its path, whatever was there before.
C13_SameNameAndNoLock ==
    /\ [](NobodyPublished =>
            \A s, t \in DOMAIN sessions :
                /\ sessions[s].availability.checked /\ sessions[s].availability.file_exists
                /\ sessions[t].availability.checked /\ sessions[t].availability.file_exists
                => sessions[s].availability.suggested_new_filename =
                   sessions[t].availability.suggested_new_filename)
    /\ [][\A s \in DOMAIN sessions :
             ClickUpdateWidget(s, {NoFaults}) =>
                /\ sessions'[s].outcome.result = "success"
                /\ sessions'[s].iframe_snippet \in DOMAIN remote'.files
                /\ remote'.files[sessions'[s].iframe_snippet] =
                      Content(s, <<sessions'[s].uploaded_file.name,
                                   sessions'[s].widget_title>>)]_vars

\* both sessions were given the same new name, both published to it, and the
\* document of session 1 has been replaced by that of session 2
C13_Witness ==
    /\ Len(sessions) = 2
    /\ \E n \in DOMAIN remote.files :
          /\ n # base_filename(sessions[1].app)
          /\ \A s \in RaceSessions :
                /\ sessions[s].availability.suggested_new_filename = n
                /\ sessions[s].has_generated
                /\ sessions[s].iframe_snippet = n
                /\ sessions[s].outcome.event = "update"
                /\ sessions[s].outcome.result = "success"
          /\ sessions[1].uploaded_file.name # sessions[2].uploaded_file.name
          /\ remote.files[n].by = 2
          /\ remote.files[n].data[1] = sessions[2].uploaded_file.name

(***************************************************************************)
(* Properties of one session whose requests may fail (SpecSession).        *)
(***************************************************************************)
\* what a session shows of its earlier work
Rendered(sess) ==
    IF sess.app \in ListApps
    THEN <<sess.iframe_snippet, sess.has_generated>>
    ELSE <<sess.draft_html, sess.draft_ready, sess.generated_html, sess.html_generated,
           sess.iframe_published, sess.iframe_snippet, sess.published_url>>

\* the requests of a run that were answered with an error status, but for the
\* 403 that the Pages lookup takes for "leave Pages as it is"
FailedCalls(log) ==
    {log[i].call : i \in {j \in DOMAIN log :
                            /\ log[j].status \in ErrorStatuses(log[j].call)
                            /\ log[j].status # 403}}

\* the requests whose failure the publish code lets through to its caller
AbortingCalls ==
    {"check_repo", "check_file", "ensure_repo_get", "ensure_repo_post",
     "upload_get", "upload_put"}

\* the step was a click on a publish button during which one of calls failed
PublishStepFailedOn(calls) ==
    /\ sessions'[1].outcome.event \in {"update", "publish"}
    /\ FailedCalls(sessions'[1].outcome.log) \cap calls # {}

PublishAborted ==
    /\ sessions'[1].outcome.result = "failed"
    /\ Rendered(sessions'[1]) = Rendered(sessions[1])

\* C14 as stated: whenever a request of a publish action fails, the action is
\* aborted and what the session rendered before is unchanged.
C14_AnyFailureAborts ==
    [][PublishStepFailedOn(CallPoints) => PublishAborted]_vars

\* C14 amended: whenever the repository check, the file check, the repository
\* creation or the file upload of a publish action fails, the action is aborted
\* and what the session rendered before is unchanged: draft_html, draft_ready,
\* generated_html, html_generated, iframe_published, iframe_snippet and
\* published_url in the map application, iframe_snippet and has_generated in the
\* list and table applications.
C14_AbortingFailureKeepsRendered ==
    [][PublishStepFailedOn(AbortingCalls) => PublishAborted]_vars

\* a publish failed on its upload after an earlier one had succeeded, and the
\* path of the earlier one is still shown
C14_Witness ==
    /\ pc = "session"
    /\ sessions[1].outcome.event \in {"update", "publish"}
    /\ sessions[1].outcome.result = "failed"
    /\ "upload_put" \in FailedCalls(sessions[1].outcome.log)
    /\ sessions[1].iframe_snippet # <<>>
    /\ sessions[1].has_generated \/ sessions[1].iframe_published

\* the positions of a run's requests, among those to calls, that were answered
\* with an error status
ErrorAnswers(log, calls) ==
    {i \in DOMAIN log : log[i].call \in calls /\ log[i].status \in ErrorStatuses(log[i].call)}

\* the script of the session last ran on a click that talks to GitHub
RemoteRun ==
    /\ pc = "session"
    /\ sessions[1].outcome.event \in {"check", "update", "publish"}

\* the run ended as a failure that carries the status of request i, its last
Propagated(i) ==
    /\ sessions[1].outcome.result = "failed"
    /\ sessions[1].outcome.error
    /\ sessions[1].outcome.status = sessions[1].outcome.log[i].status
    /\ i = Len(sessions[1].outcome.log)

\* the repo check, the file check, the repo creation, the Pages-enable call, the
\* file upload and the Pages build trigger
ListedCalls == CallPoints \ {"list_contents"}

\* C15 as stated: every request of a publish or availability check, the Pages
\* requests included, that is answered with an error status ends the action as a
\* failure carrying that status.
C15_EveryErrorIsPropagated ==
    RemoteRun =>
        \A i \in ErrorAnswers(sessions[1].outcome.log, ListedCalls) : Propagated(i)

\* C15 amended: every request of the repo check, the file check, the repo
\* creation and the file upload that is answered with an error status ends the
\* action as a failure carrying that status, with no request after it.
C15_AbortingErrorIsPropagated ==
    RemoteRun =>
        \A i \in ErrorAnswers(sessions[1].outcome.log, AbortingCalls) : Propagated(i)

\* an availability check whose file check was answered with an error
C15_Witness ==
    /\ RemoteRun
    /\ sessions[1].outcome.event = "check"
    /\ \E i \in ErrorAnswers(sessions[1].outcome.log, {"check_file"}) : Propagated(i)

\* the step was the upload, to the map application, of a file whose fingerprint
\* is not the stored one
NewDatasetUploaded ==
    /\ sessions[1].app \notin ListApps
    /\ sessions'[1].outcome.event = "upload"
    /\ sessions'[1].uploaded_file.name # sessions[1].csv_fingerprint

DifferentCsvUploaded ==
    /\ sessions[1].app \in ListApps
    /\ sessions[1].uploaded_file # NoFile
    /\ sessions'[1].outcome.event = "upload"
    /\ sessions'[1].uploaded_file.name # sessions[1].uploaded_file.name

\* C17: in the list and table applications, right after a different CSV is
\* uploaded the iframe snippet is empty, has_generated is false, no availability
\* result is held and the widget file name is the default one.
C17_NewUploadResetsSession ==
    [][DifferentCsvUploaded =>
          /\ sessions'[1].iframe_snippet = <<>>
          /\ ~sessions'[1].has_generated
          /\ sessions'[1].availability = NoAvailability
          /\ sessions'[1].widget_file_name \in {<<>>, base_filename(sessions[1].app)}]_vars

\* the file in the uploader has no rows, or lacks a column the application needs
\* (the table application needs none)
ShapeError(sess) ==
    \/ sess.uploaded_file.shape = "no_rows"
    \/ /\ sess.uploaded_file.shape = "missing_column"
       /\ sess.app # "branded_table_generator"

\* C19: while the uploaded file has no rows or lacks a required column, every
\* script run shows an error and stops, draws none of the availability and
\* publish controls, generates no HTML and runs no remote step.
C19_ShapeErrorsBlock ==
    pc = "session" /\ ShapeError(sessions[1]) =>
        /\ sessions[1].outcome.error
        /\ sessions[1].outcome.stopped
        /\ ~sessions[1].outcome.controls
        /\ ~sessions[1].outcome.generated
        /\ sessions[1].outcome.result = "none"
\* the order in which a publish action makes its requests
PublishOrder ==
    <<"check_repo", "check_file", "ensure_repo_get", "ensure_repo_post",
      "pages_get", "pages_post", "upload_get", "upload_put", "build_post">>

Pos(call) == CHOOSE i \in DOMAIN PublishOrder : PublishOrder[i] = call

\* the script of the session last ran on a click of a publish button
PublishRun ==
    /\ pc = "session"
    /\ sessions[1].outcome.event \in {"update", "publish"}

\* the positions of the log at which call was answered with one of statuses
AnsweredAt(log, call, statuses) ==
    {i \in DOMAIN log : log[i].call = call /\ log[i].status \in statuses}

EndedPublished ==
    /\ sessions[1].outcome.result = "success"
    /\ ~sessions[1].outcome.error
    /\ sessions[1].iframe_snippet \in DOMAIN remote.files
    /\ remote.files[sessions[1].iframe_snippet].by = 1

\* the publish action ended with an error message
EndedFailed ==
    /\ sessions[1].outcome.result \in {"failed", "refused"}
    /\ sessions[1].outcome.error

C28_OverwriteOnlyAfterCheck ==
    [][/\ sessions[1].app \in ListApps
       /\ sessions'[1].outcome.event = "update"
       /\ sessions'[1].outcome.result = "success"
       /\ sessions'[1].iframe_snippet \in DOMAIN remote.files
       => /\ sessions[1].availability.checked
          /\ sessions[1].availability.file_exists
          /\ sessions[1].file_conflict_choice = "Replace"]_vars

(***************************************************************************)
(* Properties of a session of the map application (SpecMap).               *)
(***************************************************************************)
\* C24: right after a click on "Update the map contents" html_generated is false,
\* generated_html is empty, iframe_published is false, iframe_snippet,
\* published_url and publish_status are empty, draft_ready is true and
\* draft_html is the document built from the uploaded table and the settings the
\* edit panel held when the button was clicked.
C24_UpdateInvalidatesGenerated ==
    [][sessions'[1].outcome.event = "update_map" =>
          LET after == sessions'[1]
          IN  /\ ~after.html_generated
              /\ after.generated_html = <<>>
              /\ ~after.iframe_published
              /\ after.iframe_snippet = <<>>
              /\ after.published_url = <<>>
              /\ after.publish_status = ""
              /\ after.draft_ready
              /\ after.applied = sessions[1].edit
              /\ after.draft_html =
                    <<sessions[1].uploaded_file.name, sessions[1].edit.brand,
                      sessions[1].edit.page_title>>]_vars

\* the session had published a document with the default title when the title
\* was changed and "Update the map contents" was clicked
C24_Witness ==
    /\ pc = "session"
    /\ sessions[1].outcome.event = "update_map"
    /\ base_filename("branded_map") \in DOMAIN remote.files
    /\ remote.files[base_filename("branded_map")].by = 1
    /\ remote.files[base_filename("branded_map")].data[3] = DefaultEdits.page_title
    /\ sessions[1].draft_html[3] # DefaultEdits.page_title
    /\ ~sessions[1].iframe_published
    /\ sessions[1].generated_html = <<>>
\* C25: whenever html_generated holds, generated_html is draft_html, the document
\* of the preview, and the file a successful publish leaves in the repository is
\* that document, built from the uploaded table and the applied settings.
C25_PublishedIsThePreview ==
    pc = "session" =>
        /\ sessions[1].html_generated =>
              sessions[1].generated_html = sessions[1].draft_html
        /\ sessions[1].outcome.event = "publish" /\ sessions[1].outcome.result = "success" =>
              /\ base_filename(sessions[1].app) \in DOMAIN remote.files
              /\ remote.files[base_filename(sessions[1].app)].by = 1
              /\ remote.files[base_filename(sessions[1].app)].data = sessions[1].draft_html
              /\ sessions[1].draft_html = build_html_from_applied(sessions[1])

\* a document with a changed title was published while the edit panel already
\* held other settings
C25_Witness ==
    /\ pc = "session"
    /\ sessions[1].outcome.event = "publish" /\ sessions[1].outcome.result = "success"
    /\ sessions[1].applied.page_title # DefaultEdits.page_title
    /\ sessions[1].edit # sessions[1].applied
    /\ remote.files[base_filename(sessions[1].app)].by = 1
    /\ remote.files[base_filename(sessions[1].app)].data = sessions[1].draft_html
\* C26: iframe_published holds only while html_generated holds, and a publish is
\* started only from a state in which html_generated holds and a GitHub token is
\* configured.
C26_PublishNeedsGeneratedHtml ==
    /\ [](pc = "session" => (sessions[1].iframe_published => sessions[1].html_generated))
    /\ [][sessions'[1].outcome.event = "publish" =>
             /\ sessions[1].html_generated
             /\ sessions[1].github_token
             /\ sessions'[1].html_generated]_vars

\* the published state of a session is still there after a setting was changed
\* and not applied
C26_Witness ==
    /\ pc = "session"
    /\ sessions[1].outcome.event = "edit"
    /\ sessions[1].iframe_published
    /\ sessions[1].html_generated
    /\ sessions[1].github_token
\* the file the map application publishes to
Target == base_filename("branded_map")

\* the step is a click on the publish button with "Replace existing file" as
\* given, under some way the requests are answered
PublishClicked(replace_existing) ==
    \E plan \in PublishPlans : Interact(1, plan, sessions[1], "publish", replace_existing)

\* C27: a publish with "Replace existing file" unchecked on a repository that
\* holds the target file makes no request for the repository creation, the
\* Pages setting, the upload or the build, changes nothing in the repository and
\* leaves iframe_published, iframe_snippet and published_url as they were; and a
\* publish that replaces the file of the repository is one with the box checked.
C27_NoReplaceWithoutConsent ==
    [][/\ PublishClicked(FALSE) /\ remote.repo /\ Target \in DOMAIN remote.files =>
             /\ \A i \in DOMAIN sessions'[1].outcome.log :
                   sessions'[1].outcome.log[i].call \in {"check_repo", "check_file"}
             /\ sessions'[1].outcome.result \in {"refused", "failed"}
             /\ remote' = remote
             /\ sessions'[1].iframe_published = sessions[1].iframe_published
             /\ sessions'[1].iframe_snippet = sessions[1].iframe_snippet
             /\ sessions'[1].published_url = sessions[1].published_url
       /\ sessions'[1].outcome.event = "publish" /\ Target \in DOMAIN remote.files
             /\ remote'.files # remote.files =>
             PublishClicked(TRUE) /\ ~PublishClicked(FALSE)]_vars

\* the publish was turned down because the file is there, and the file of the
\* repository is the one that was there before the session
C27_Witness ==
    /\ pc = "session"
    /\ sessions[1].outcome.event = "publish"
    /\ sessions[1].outcome.result = "refused"
    /\ Len(sessions[1].outcome.log) = 2
    /\ Target \in DOMAIN remote.files
    /\ remote.files[Target].by = 0
    /\ ~sessions[1].iframe_published

(***************************************************************************)
(* Property of the tabs of a list or table application (SpecWidget).       *)
(***************************************************************************)
\* the step was a click on "Update widget" that set has_generated
FirstPublish ==
    /\ ~sessions[1].has_generated
    /\ sessions'[1].has_generated

\* C30: in the list and table applications with a GitHub token, has_generated
\* is false in a new session; it becomes true only in a click on "Update
\* widget" that ended with its success message, in which no request for the
\* repository or for the file was answered with an error and the PUT of the file
\* was accepted; it never becomes false again; the title is changed only while
\* has_generated is set, so that the document of the first publish carries the
\* default title.
C30_TabsOnlyAfterPublish ==
    /\ [](pc = "session" =>
            /\ sessions[1].outcome.event = "none" => ~sessions[1].has_generated
            /\ ~sessions[1].has_generated => sessions[1].widget_title = "default_title")
    /\ [][sessions[1].has_generated => sessions'[1].has_generated]_vars
    /\ [][sessions'[1].outcome.event = "title" => sessions[1].has_generated]_vars
    /\ [][FirstPublish =>
            LET after == sessions'[1]
                log == after.outcome.log
            IN  /\ after.outcome.event = "update"
                /\ after.outcome.result = "success"
                /\ ~after.outcome.error
                /\ ErrorAnswers(log, AbortingCalls) = {}
                /\ AnsweredAt(log, "upload_put", {200, 201}) # {}
                /\ after.iframe_snippet \in DOMAIN remote'.files
                /\ remote'.files[after.iframe_snippet] =
                      Content(1, <<after.uploaded_file.name, "default_title">>)]_vars

\* the title was changed in the tabs after a first publish, whose document, with
\* the default title, is in the repository; a later upload left the tabs drawn
C30_Witness ==
    /\ pc = "session"
    /\ sessions[1].has_generated
    /\ sessions[1].widget_title = "my_title"
    /\ sessions[1].iframe_snippet \in DOMAIN remote.files
    /\ remote.files[sessions[1].iframe_snippet].by = 1
    /\ remote.files[sessions[1].iframe_snippet].data[2] = "default_title"
    /\ sessions[1].outcome.event = "upload"

====
